---- MODULE Spec2Model ----
(***************************************************************************)
(* Model of build/fetch-data.js: the tone classifiers, the segment merge   *)
(* functions and main's aggregation pipeline.                              *)
(*                                                                         *)
(* Numbers.  A percentage is an exact rational counted in hundredths of a  *)
(* percent: Rat(30, 1) is 0.30 %, Rat(61, 2) is 0.305 %.  JavaScript's     *)
(* null/undefined and NaN are the two non-numeric values JsNull and NaN.   *)
(* Objects are records whose optional properties may be absent from the    *)
(* DOMAIN (a property holding undefined is written to JSON as absent).     *)
(***************************************************************************)
EXTENDS Integers, Sequences, FiniteSets, TLC

VARIABLES
  tPct, tRes,                 \* classifier harness: input and results
  mSegs, mPrev, mOp, mArg,    \* merge harness: list, list before, last call
  mCalls,                     \* ... and the number of calls made
  env, pc, calls,             \* main: configured keys, position, clients called
  fng, news, fmpGlobal, stooqGlobal, yahooGlobal, globalMarkets,
  crypto, commodities, syn, av, yahoo,
  briefing, written,
  dData, dDrivers,            \* page builder harness: record read, drivers
  cWho, cPc, cNow,            \* one client's requests: client, position, clock
  cFlight, cLog               \* ... requests in flight, requests issued so far

toneVars  == <<tPct, tRes>>
mergeVars == <<mSegs, mPrev, mOp, mArg, mCalls>>
mainVars  == <<env, pc, calls, fng, news, fmpGlobal, stooqGlobal, yahooGlobal,
               globalMarkets, crypto, commodities, syn, av, yahoo,
               briefing, written>>
driverVars == <<dData, dDrivers>>
clientVars == <<cWho, cPc, cNow, cFlight, cLog>>
vars      == <<toneVars, mergeVars, mainVars, driverVars, clientVars>>

----------------------------------------------------------------------------
(* Bounds of the model *)

\* classifier inputs range over -MaxPct..MaxPct hundredths of a percent
MaxPct == 60
\* ... over denominators 1..MaxDen
MaxDen == 2
\* of each index-quote provider's tracked symbols, the first MaxLive and the
\* volatility index can be answered; requests for the others fail
MaxLive == 1
\* the merge harness makes at most MaxMerges calls on a list
MaxMerges == 2

----------------------------------------------------------------------------
(* Values *)

\* null / undefined, as an object-valued result
NULL == [null |-> TRUE]

RECURSIVE Gcd(_, _)
Gcd(a, b) == IF b = 0 THEN a ELSE Gcd(b, a % b)

Abs(n) == IF n < 0 THEN -n ELSE n

JsNull == [k |-> "null", n |-> 0, d |-> 1]
NaN    == [k |-> "nan", n |-> 0, d |-> 1]

\* the number n/d in lowest terms; n/0 is +Infinity or -Infinity (d = 0,
\* n = 1 or -1) and 0/0 is NaN, as in IEEE arithmetic
Rat(n, d) ==
  IF n = 0 /\ d = 0 THEN NaN
  ELSE LET g == Gcd(Abs(n), Abs(d))
           s == IF d < 0 THEN -1 ELSE 1
       IN  [k |-> "num", n |-> s * (n \div g), d |-> s * (d \div g)]

IsNum(p) == p.k = "num"

\* comparisons of a number with a threshold t given in hundredths
Gt(p, t) == p.n > t * p.d
Ge(p, t) == p.n >= t * p.d
Lt(p, t) == p.n < t * p.d

\* x ?? 0
OrZero(p) == IF p.k = "null" THEN Rat(0, 1) ELSE p

RAdd(p, q) ==
  IF ~IsNum(p) \/ ~IsNum(q) THEN NaN
  ELSE IF p.d = 0 /\ q.d = 0 THEN (IF p.n = q.n THEN p ELSE NaN)
  ELSE Rat(p.n * q.d + q.n * p.d, p.d * q.d)

\* p / c for a count c
RDiv(p, c) == IF ~IsNum(p) THEN NaN ELSE Rat(p.n, p.d * c)

RSub(p, q) ==
  IF ~IsNum(p) \/ ~IsNum(q) THEN NaN
  ELSE Rat(p.n * q.d - q.n * p.d, p.d * q.d)

RQuot(p, q) ==
  IF ~IsNum(p) \/ ~IsNum(q) THEN NaN ELSE Rat(p.n * q.d, p.d * q.n)

\* ratio * 100, the percentage counted in hundredths
Percent(ratio) == IF ~IsNum(ratio) THEN NaN ELSE Rat(ratio.n * 10000, ratio.d)

\* a number used as a condition: 0, NaN, null and undefined are falsy
Truthy(p) == IsNum(p) /\ p.n # 0

\* a ?? b
Coalesce(a, b) == IF a.k = "null" THEN b ELSE a

\* o.f, undefined when the property is absent
Fld(o, f) == IF f \in DOMAIN o THEN o[f] ELSE JsNull

----------------------------------------------------------------------------
(* Tone classifiers *)

pctDir_strictLost(pct) ==
  IF ~IsNum(pct) THEN "flat"
  ELSE IF Ge(pct, 30) THEN "up"
  ELSE IF Lt(pct, -30) THEN "down"
  ELSE "flat"

pctDir(pct) ==
  IF ~IsNum(pct) THEN "flat"
  ELSE IF Gt(pct, 30) THEN "up"
  ELSE IF Lt(pct, -30) THEN "down"
  ELSE "flat"

toneFromPct(pct) ==
  IF ~IsNum(pct) THEN "flat"
  ELSE IF Ge(pct, 50) THEN "up"
  ELSE IF Ge(pct, 15) THEN "up"
  ELSE IF Ge(pct, -15) THEN "flat"
  ELSE IF Ge(pct, -49) THEN "down"
  ELSE "down"

vixToneFromPct_noGuard(pct) ==
  IF ~IsNum(pct) THEN "subdued"     \* every comparison with NaN is false
  ELSE IF Ge(pct, 50) THEN "elevated"
  ELSE IF Ge(pct, 15) THEN "elevated"
  ELSE IF Ge(pct, -15) THEN "steady"
  ELSE IF Ge(pct, -49) THEN "subdued"
  ELSE "subdued"

vixToneFromPct(pct) ==
  IF ~IsNum(pct) THEN "steady"
  ELSE IF Ge(pct, 50) THEN "elevated"
  ELSE IF Ge(pct, 15) THEN "elevated"
  ELSE IF Ge(pct, -15) THEN "steady"
  ELSE IF Ge(pct, -49) THEN "subdued"
  ELSE "subdued"

vixLabel_inverted(changePct) ==
  IF ~IsNum(changePct) THEN "steady"
  ELSE IF Gt(changePct, 30) THEN "subdued"
  ELSE IF Lt(changePct, -30) THEN "elevated"
  ELSE "steady"

vixLabel(changePct) ==
  IF ~IsNum(changePct) THEN "steady"
  ELSE IF Gt(changePct, 30) THEN "elevated"
  ELSE IF Lt(changePct, -30) THEN "subdued"
  ELSE "steady"

----------------------------------------------------------------------------
(* Objects *)

\* { ...s, ...r }
Spread(s, r) == r @@ s

\* o?.f is truthy (f is an object-valued property)
Has(o, f) == f \in DOMAIN o /\ o[f] # NULL

IsPlaceholder(r) == "placeholder" \in DOMAIN r /\ r.placeholder

IsVixStyle(r) == "vixStyle" \in DOMAIN r /\ r.vixStyle

\* t.changePct ?? 0
ChangePctOrZero(t) ==
  IF "changePct" \in DOMAIN t THEN OrZero(t.changePct) ELSE Rat(0, 1)

RECURSIVE SumChangePct(_)
SumChangePct(ts) ==
  IF ts = <<>> THEN Rat(0, 1)
  ELSE RAdd(ChangePctOrZero(Head(ts)), SumChangePct(Tail(ts)))

\* pct >= 0 ? '+' : ''
SignPrefix(p) == IF IsNum(p) /\ Ge(p, 0) THEN "+" ELSE ""

\* pct?.toFixed(2): two decimals of the percentage, i.e. whole hundredths,
\* ties away from zero, the sign of a negative number kept
toFixed2(p) ==
  IF p.k = "nan" THEN "NaN"
  ELSE IF p.k = "null" THEN "undefined"
  ELSE IF p.d = 0 THEN (IF p.n < 0 THEN "-Infinity" ELSE "Infinity")
  ELSE LET a == Abs(p.n)
           q == (2 * a + p.d) \div (2 * p.d)
       IN  (IF p.n < 0 THEN "-" ELSE "") \o ToString(q \div 100) \o "."
             \o (IF q % 100 < 10 THEN "0" ELSE "") \o ToString(q % 100)

T(symbol, name) == [symbol |-> symbol, name |-> name]

PlaceholderRegion(label) ==
  [label |-> label, direction |-> "flat", placeholder |-> TRUE]

VixPlaceholderRegion ==
  [label |-> "VIX", direction |-> "steady", vixStyle |-> TRUE,
   placeholder |-> TRUE]

Seg(name, direction, description) ==
  [name |-> name, direction |-> direction, description |-> description]

----------------------------------------------------------------------------
(* The baseline record and the static outlines *)

FALLBACK ==
  [bigPicture |-> "Markets are consolidating. Add NEWS_API_KEY for live headlines. See README for setup.",
   marketMood |-> "Neutral",
   fearGreed |-> [value |-> Rat(50, 1), label |-> "Neutral"],
   trendingNews |-> <<"Markets await key economic data", "Fed policy in focus",
                      "Add API keys for live headlines">>,
   topHeadlines |-> <<[source |-> "Reuters", title |-> "Markets digest Fed decision"],
                      [source |-> "Bloomberg", title |-> "Add NEWS_API_KEY for live data"]>>,
   segments |-> <<
     Spread(Seg("Global Markets", "flat", "Market data temporarily unavailable."),
            [regions |-> <<PlaceholderRegion("S&P 500"), PlaceholderRegion("Europe"),
                           PlaceholderRegion("Asia"), VixPlaceholderRegion>>]),
     Seg("Currencies", "flat", "Add API keys for live data."),
     Seg("Bonds & Rates", "flat", "Government bonds and credit."),
     Seg("Digital Assets", "flat", "Add API keys for live data."),
     Seg("Commodities", "flat", "Gold, silver, copper data temporarily unavailable."),
     Seg("Energy & Materials", "flat", "Add API keys for live data."),
     Seg("U.S. Growth & Tech", "flat", "Add API keys for live data."),
     Seg("Sector Performance", "flat", "S&P 500 sector ETFs."),
     Seg("Real Estate", "flat", "REITs and property."),
     Seg("Top Movers", "flat", "Biggest gainers and losers.")>>,
   \* new Date().toISOString() when the script is loaded
   updatedAt |-> "loadTime"]

GLOBAL_MARKETS_PLACEHOLDERS ==
  <<PlaceholderRegion("S&P 500"), PlaceholderRegion("Dow Jones"),
    PlaceholderRegion("Nasdaq"), PlaceholderRegion("Euro Stoxx 50"),
    PlaceholderRegion("DAX"), PlaceholderRegion("Nikkei 225"),
    PlaceholderRegion("Hang Seng"), PlaceholderRegion("Shanghai Composite"),
    VixPlaceholderRegion>>

BONDS_RATES_PLACEHOLDERS ==
  <<T("US10Y", "U.S. 10Y Treasury"), T("US2Y", "U.S. 2Y Treasury"),
    T("DE10Y", "German 10Y Bund"), T("DE2Y", "German 2Y Schatz"),
    T("JP10Y", "Japan 10Y Bond"), T("JP2Y", "Japan 2Y Bond"),
    T("CN10Y", "China 10Y Bond"), T("CN2Y", "China 2Y Bond"),
    T("TIP", "US TIPS"), T("TLT", "Long Duration Treasuries"),
    T("LQD", "Investment Grade Credit"), T("HYG", "High Yield Credit")>>

CURRENCY_PLACEHOLDERS ==
  <<T("DXY", "U.S. Dollar"), T("EUR/USD", "EUR/USD"), T("USD/JPY", "USD/JPY"),
    T("GBP/USD", "GBP/USD"), T("CNY/USD", "CNY/USD"), T("AUD/USD", "AUD/USD"),
    T("USD/CAD", "USD/CAD"), T("USD/CHF", "USD/CHF")>>

SECTOR_PERFORMANCE_PLACEHOLDERS ==
  <<T("XLK", "Technology"), T("XLF", "Financials"), T("XLE", "Energy"),
    T("XLV", "Health Care"), T("XLY", "Consumer Discretionary"),
    T("XLP", "Consumer Staples"), T("XLI", "Industrials"),
    T("XLB", "Materials"), T("XLU", "Utilities")>>

REAL_ESTATE_PLACEHOLDERS ==
  <<T("VNQ", "U.S. REITs"), T("REET", "Global Real Estate"),
    T("IYR", "Dow Jones REIT")>>

TOP_MOVERS_PLACEHOLDERS == <<T("▲", "Leading"), T("▼", "Lagging")>>

US_GROWTH_TECH_PLACEHOLDERS ==
  <<T("AAPL", "Apple"), T("MSFT", "Microsoft"), T("TSLA", "Tesla"),
    T("AMZN", "Amazon"), T("GOOGL", "Google"), T("META", "Meta"),
    T("SMH", "VanEck Semiconductor ETF"), T("SOXX", "Semiconductors")>>

ENERGY_PLACEHOLDERS ==
  <<T("BRENT", "U.K. Oil"), T("WTI", "U.S. Oil"), T("NG", "U.S. Natural Gas"),
    T("TTF", "EU Natural Gas"), T("COAL", "Coal"), T("KRBN", "Carbon ETF")>>

COMMODITY_PLACEHOLDERS ==
  <<T("GOLD", "Gold"), T("XAG", "Silver"), T("COPPER", "Copper"),
    T("HG", "Copper"), T("WHEAT", "Wheat"), T("CORN", "Corn"),
    T("SOY", "Soybeans"), T("COFFEE", "Coffee"),
    T("BCOM", "Bloomberg Commodity")>>

DIGITAL_ASSETS_ADDITIONAL ==
  <<T("DOGE", "Dogecoin"), T("SOL", "Solana"), T("XRP", "XRP"),
    T("ADA", "Cardano"), T("AVAX", "Avalanche")>>

----------------------------------------------------------------------------
(* Segment merge functions.  Each returns the list unchanged when it is     *)
(* empty (!segments?.length), and otherwise maps over it by name.          *)

\* segments.map(s => s.name === name ? { ...s, ...patch(s) } : s)
MapNamed(segments, name, patch(_)) ==
  [i \in DOMAIN segments |->
     IF segments[i].name = name THEN Spread(segments[i], patch(segments[i]))
     ELSE segments[i]]

CommodityTicker(symbol, name, q) ==
  [symbol |-> symbol, name |-> name, price |-> q.price, changePct |-> q.changePct]

RECURSIVE JoinTickerDesc(_)
JoinTickerDesc(ts) ==
  LET t == Head(ts)
      one == t.name \o " " \o SignPrefix(ChangePctOrZero(t))
               \o toFixed2(ChangePctOrZero(t)) \o "%"
  IN  IF Len(ts) = 1 THEN one ELSE one \o ", " \o JoinTickerDesc(Tail(ts))

mergeCommoditiesIntoSegments(segments, cm) ==
  IF segments = <<>> THEN segments
  ELSE
    LET \* the tickers pushed for gold, silver, copper, in that order
        live ==
          IF Has(cm, "gold") \/ Has(cm, "silver") \/ Has(cm, "copper")
          THEN (IF Has(cm, "gold")
                  THEN <<CommodityTicker("GLD", "Gold", cm.gold)>> ELSE <<>>)
               \o (IF Has(cm, "silver")
                  THEN <<CommodityTicker("SLV", "Silver", cm.silver)>> ELSE <<>>)
               \o (IF Has(cm, "copper")
                  THEN <<CommodityTicker("HG", "Copper", cm.copper)>> ELSE <<>>)
          ELSE <<>>
        tickers == IF live # <<>> THEN live ELSE COMMODITY_PLACEHOLDERS
        avgPct == RDiv(SumChangePct(tickers), Len(tickers))
        direction == pctDir(avgPct)
        desc == IF live # <<>> THEN JoinTickerDesc(live) \o "."
                ELSE "Precious metals, grains, and industrial commodities."
        patch(s) == [direction |-> direction, description |-> desc,
                     tickers |-> tickers]
    IN  MapNamed(segments, "Commodities", patch)

mergeCurrenciesIntoSegments(segments) ==
  IF segments = <<>> THEN segments
  ELSE LET patch(s) == [tickers |-> CURRENCY_PLACEHOLDERS]
       IN  MapNamed(segments, "Currencies", patch)

mergeBondsRatesIntoSegments_wrongName(segments) ==
  IF segments = <<>> THEN segments
  ELSE LET patch(s) == [tickers |-> BONDS_RATES_PLACEHOLDERS]
       IN  MapNamed(segments, "Bonds and Rates", patch)

mergeBondsRatesIntoSegments(segments) ==
  IF segments = <<>> THEN segments
  ELSE LET patch(s) == [tickers |-> BONDS_RATES_PLACEHOLDERS]
       IN  MapNamed(segments, "Bonds & Rates", patch)

\* globalData?.regions?.length && globalData.regions.some(r => !r.placeholder)
UseGlobal(globalData) ==
  /\ "regions" \in DOMAIN globalData
  /\ Len(globalData.regions) > 0
  /\ \E i \in DOMAIN globalData.regions : ~IsPlaceholder(globalData.regions[i])

mergeGlobalMarketsRegions_keepsRegions(segments, globalData) ==
  IF segments = <<>> THEN segments
  ELSE LET patch(s) ==
             IF UseGlobal(globalData)
             THEN [regions |-> globalData.regions,
                   direction |-> globalData.direction,
                   description |-> globalData.description]
             ELSE [regions |-> IF "regions" \in DOMAIN s THEN s.regions
                               ELSE GLOBAL_MARKETS_PLACEHOLDERS,
                   description |-> "Session tone and regional risk across major indices."]
       IN  MapNamed(segments, "Global Markets", patch)

mergeGlobalMarketsRegions_resetsDirection(segments, globalData) ==
  IF segments = <<>> THEN segments
  ELSE LET patch(s) ==
             IF UseGlobal(globalData)
             THEN [regions |-> globalData.regions,
                   direction |-> globalData.direction,
                   description |-> globalData.description]
             ELSE [regions |-> GLOBAL_MARKETS_PLACEHOLDERS,
                   direction |-> "flat",
                   description |-> "Session tone and regional risk across major indices."]
       IN  MapNamed(segments, "Global Markets", patch)

mergeGlobalMarketsRegions(segments, globalData) ==
  IF segments = <<>> THEN segments
  ELSE LET patch(s) ==
             IF UseGlobal(globalData)
             THEN [regions |-> globalData.regions,
                   direction |-> globalData.direction,
                   description |-> globalData.description]
             ELSE [regions |-> GLOBAL_MARKETS_PLACEHOLDERS,
                   description |-> "Session tone and regional risk across major indices."]
       IN  MapNamed(segments, "Global Markets", patch)

mergeEnergyIntoSegments_copyPaste(segments) ==
  IF segments = <<>> THEN segments
  ELSE LET patch(s) == [tickers |-> ENERGY_PLACEHOLDERS]
       IN  MapNamed(segments, "Commodities", patch)

mergeEnergyIntoSegments(segments) ==
  IF segments = <<>> THEN segments
  ELSE LET patch(s) == [tickers |-> ENERGY_PLACEHOLDERS]
       IN  MapNamed(segments, "Energy & Materials", patch)

mergeUsGrowthTechIntoSegments(segments) ==
  IF segments = <<>> THEN segments
  ELSE LET patch(s) == [tickers |-> US_GROWTH_TECH_PLACEHOLDERS]
       IN  MapNamed(segments, "U.S. Growth & Tech", patch)

mergeSectorPerformanceIntoSegments_everySegment(segments) ==
  [i \in DOMAIN segments |->
     Spread(segments[i], [tickers |-> SECTOR_PERFORMANCE_PLACEHOLDERS])]

mergeSectorPerformanceIntoSegments(segments) ==
  IF segments = <<>> THEN segments
  ELSE LET patch(s) == [tickers |-> SECTOR_PERFORMANCE_PLACEHOLDERS]
       IN  MapNamed(segments, "Sector Performance", patch)

mergeRealEstateIntoSegments_pushes(segments) ==
  IF segments = <<>> THEN segments
  ELSE Append(segments, [name |-> "Real Estate",
                         tickers |-> REAL_ESTATE_PLACEHOLDERS])

mergeRealEstateIntoSegments(segments) ==
  IF segments = <<>> THEN segments
  ELSE LET patch(s) == [tickers |-> REAL_ESTATE_PLACEHOLDERS]
       IN  MapNamed(segments, "Real Estate", patch)

mergeTopMoversIntoSegments(segments) ==
  IF segments = <<>> THEN segments
  ELSE LET patch(s) == [tickers |-> TOP_MOVERS_PLACEHOLDERS]
       IN  MapNamed(segments, "Top Movers", patch)

mergeCryptoIntoSegments_accumulate(segments, cr) ==
  IF segments = <<>> THEN segments
  ELSE
    LET live == Has(cr, "btc") /\ Has(cr, "eth")
        tickers ==
          (IF live
           THEN <<[symbol |-> "BTC/USD", name |-> "Bitcoin",
                   price |-> cr.btc.price, changePct |-> cr.btc.changePct],
                  [symbol |-> "ETH/USD", name |-> "Ethereum",
                   price |-> cr.eth.price, changePct |-> cr.eth.changePct]>>
           ELSE <<>>) \o DIGITAL_ASSETS_ADDITIONAL
        patch(s) ==
          [direction |-> IF live
                         THEN pctDir(RDiv(RAdd(cr.btc.changePct,
                                               cr.eth.changePct), 2))
                         ELSE "flat",
           description |-> "Fear & Greed for sentiment.",
           tickers |-> (IF "tickers" \in DOMAIN s THEN s.tickers ELSE <<>>)
                         \o tickers]
    IN  MapNamed(segments, "Digital Assets", patch)

mergeCryptoIntoSegments_fiveBand(segments, cr) ==
  IF segments = <<>> THEN segments
  ELSE
    LET live == Has(cr, "btc") /\ Has(cr, "eth")
        avgPct == RDiv(RAdd(cr.btc.changePct, cr.eth.changePct), 2)
        direction == IF live THEN toneFromPct(avgPct) ELSE "flat"
        tickers ==
          (IF live
           THEN <<[symbol |-> "BTC/USD", name |-> "Bitcoin",
                   price |-> cr.btc.price, changePct |-> cr.btc.changePct],
                  [symbol |-> "ETH/USD", name |-> "Ethereum",
                   price |-> cr.eth.price, changePct |-> cr.eth.changePct]>>
           ELSE <<>>) \o DIGITAL_ASSETS_ADDITIONAL
        desc ==
          IF live
          THEN "BTC " \o SignPrefix(cr.btc.changePct) \o toFixed2(cr.btc.changePct)
                 \o "%, ETH " \o SignPrefix(cr.eth.changePct)
                 \o toFixed2(cr.eth.changePct) \o "%. Fear & Greed for sentiment."
          ELSE "Fear & Greed for sentiment."
        patch(s) == [direction |-> direction, description |-> desc,
                     tickers |-> tickers]
    IN  MapNamed(segments, "Digital Assets", patch)

mergeCryptoIntoSegments(segments, cr) ==
  IF segments = <<>> THEN segments
  ELSE
    LET live == Has(cr, "btc") /\ Has(cr, "eth")
        avgPct == RDiv(RAdd(cr.btc.changePct, cr.eth.changePct), 2)
        direction == IF live THEN pctDir(avgPct) ELSE "flat"
        tickers ==
          (IF live
           THEN <<[symbol |-> "BTC/USD", name |-> "Bitcoin",
                   price |-> cr.btc.price, changePct |-> cr.btc.changePct],
                  [symbol |-> "ETH/USD", name |-> "Ethereum",
                   price |-> cr.eth.price, changePct |-> cr.eth.changePct]>>
           ELSE <<>>) \o DIGITAL_ASSETS_ADDITIONAL
        desc ==
          IF live
          THEN "BTC " \o SignPrefix(cr.btc.changePct) \o toFixed2(cr.btc.changePct)
                 \o "%, ETH " \o SignPrefix(cr.eth.changePct)
                 \o toFixed2(cr.eth.changePct) \o "%. Fear & Greed for sentiment."
          ELSE "Fear & Greed for sentiment."
        patch(s) == [direction |-> direction, description |-> desc,
                     tickers |-> tickers]
    IN  MapNamed(segments, "Digital Assets", patch)

----------------------------------------------------------------------------
(* HTTP.  A response is [kind |-> "throw"] (transport error, timeout,      *)
(* unparseable body), [kind |-> "http", ok |-> FALSE] (non-2xx) or         *)
(* [kind |-> "http", ok |-> TRUE, json |-> body].  A JSON array is the     *)
(* body [array |-> <<...>>].                                               *)

Throw == [kind |-> "throw"]
NotOk == [kind |-> "http", ok |-> FALSE]
Ok(body) == [kind |-> "http", ok |-> TRUE, json |-> body]

fetchJson(r) == IF r.kind = "http" /\ r.ok THEN r.json ELSE NULL

----------------------------------------------------------------------------
(* Index-quote providers *)

Sym(symbol, label) == [symbol |-> symbol, label |-> label]

FMP_GLOBAL_SYMBOLS ==
  <<Sym("^GSPC", "S&P 500"), Sym("^DJI", "Dow Jones"), Sym("^IXIC", "Nasdaq"),
    Sym("^STOXX50E", "Euro Stoxx 50"), Sym("^GDAXI", "DAX"),
    Sym("^N225", "Nikkei 225"), Sym("^HSI", "Hang Seng"),
    Sym("^SSEC", "Shanghai Composite"),
    [symbol |-> "^VIX", label |-> "VIX", vixStyle |-> TRUE]>>

STOOQ_GLOBAL_SYMBOLS ==
  <<Sym("^SPX", "S&P 500"), Sym("^DJI", "Dow Jones"), Sym("^IXIC", "Nasdaq"),
    Sym("^STOXX50E", "Euro Stoxx 50"), Sym("^GDAXI", "DAX"),
    Sym("^N225", "Nikkei 225"), Sym("^HSI", "Hang Seng"),
    Sym("^SSEC", "Shanghai Composite"),
    [symbol |-> "^VIX", label |-> "VIX", vixStyle |-> TRUE]>>

YAHOO_GLOBAL_SYMBOLS ==
  <<Sym("^GSPC", "S&P 500"), Sym("^DJI", "Dow Jones"), Sym("^IXIC", "Nasdaq"),
    Sym("^STOXX50E", "Euro Stoxx 50"), Sym("^GDAXI", "DAX"),
    Sym("^N225", "Nikkei 225"), Sym("^HSI", "Hang Seng"),
    Sym("^SSEC", "Shanghai Composite"),
    [symbol |-> "^VIX", label |-> "VIX", vixStyle |-> TRUE]>>

\* { label, direction: vixStyle ? 'steady' : 'flat', vixStyle, placeholder: true }
SymbolPlaceholder(sy) ==
  IF IsVixStyle(sy)
  THEN [label |-> sy.label, direction |-> "steady", vixStyle |-> TRUE,
        placeholder |-> TRUE]
  ELSE [label |-> sy.label, direction |-> "flat", placeholder |-> TRUE]

SymbolRegion_oneClassifier(sy, pct) ==
  IF IsVixStyle(sy)
  THEN [label |-> sy.label, direction |-> toneFromPct(pct), vixStyle |-> TRUE,
        changePct |-> pct, placeholder |-> FALSE]
  ELSE [label |-> sy.label, direction |-> toneFromPct(pct),
        changePct |-> pct, placeholder |-> FALSE]

\* { label, direction, vixStyle, changePct: pct, placeholder: false }
SymbolRegion(sy, pct) ==
  IF IsVixStyle(sy)
  THEN [label |-> sy.label, direction |-> vixToneFromPct(pct), vixStyle |-> TRUE,
        changePct |-> pct, placeholder |-> FALSE]
  ELSE [label |-> sy.label, direction |-> toneFromPct(pct),
        changePct |-> pct, placeholder |-> FALSE]

\* the last element of quotes carrying this symbol, NULL when there is none
\* (Object.fromEntries keeps the last entry of a key)
RECURSIVE BySymbol(_, _)
BySymbol(quotes, symbol) ==
  IF quotes = <<>> THEN NULL
  ELSE LET q == quotes[Len(quotes)]
       IN  IF q # NULL /\ "symbol" \in DOMAIN q /\ q.symbol = symbol THEN q
           ELSE BySymbol(SubSeq(quotes, 1, Len(quotes) - 1), symbol)

\* the regions that are neither placeholders nor volatility-style
NonPlaceholder(regions) ==
  SelectSeq(regions, LAMBDA r : ~IsPlaceholder(r) /\ ~IsVixStyle(r))

\* toneFromPct of the mean changePct of the non-placeholder regions, 0 if none
AvgDirection(regions) ==
  LET np == NonPlaceholder(regions)
      avgPct == IF Len(np) > 0 THEN RDiv(SumChangePct(np), Len(np)) ELSE Rat(0, 1)
  IN  toneFromPct(avgPct)

\* change && price ? (change / (price - change)) * 100 : otherwise
PctFromChange(change, price, otherwise) ==
  IF Truthy(change) /\ Truthy(price)
  THEN Percent(RQuot(change, RSub(price, change)))
  ELSE otherwise

FmpRegion(data, sy) ==
  LET q == BySymbol(data, sy.symbol)
      pct == Coalesce(Fld(q, "changesPercentage"),
               Coalesce(Fld(q, "changePercent"),
                 PctFromChange(Fld(q, "change"), Fld(q, "price"), JsNull)))
  IN  IF q = NULL THEN SymbolPlaceholder(sy)
      ELSE IF ~IsNum(pct) THEN SymbolPlaceholder(sy)
      ELSE SymbolRegion(sy, pct)

\* r: the response to the batch-quote request (made only with a key)
fetchFmpGlobalMarkets(key, r) ==
  IF ~key THEN NULL
  ELSE LET data == fetchJson(r)
       IN  IF "array" \notin DOMAIN data \/ data.array = <<>> THEN NULL
           ELSE LET regions == [i \in DOMAIN FMP_GLOBAL_SYMBOLS |->
                                  FmpRegion(data.array, FMP_GLOBAL_SYMBOLS[i])]
                IN  [regions |-> regions,
                     direction |-> AvgDirection(regions),
                     description |-> "Session tone and regional risk. Data via FMP."]

(* Stooq.  rs[i] is the response to the request for STOOQ_GLOBAL_SYMBOLS[i]; *)
(* a CSV body is [kind |-> "http", ok |-> TRUE, lines |-> closes], the       *)
(* non-empty lines of the trimmed text, each given by parseFloat of its      *)
(* fifth field (NaN for the header line or a short or non-numeric row).      *)

Csv(closes) == [kind |-> "http", ok |-> TRUE, lines |-> closes]

StooqSymbolPct_overCurrent(r) ==
  IF r.kind # "http" \/ ~r.ok THEN JsNull
  ELSE IF Len(r.lines) < 2 THEN JsNull
  ELSE LET prevClose == r.lines[Len(r.lines) - 1]
           currClose == r.lines[Len(r.lines)]
       IN  IF ~IsNum(prevClose) \/ ~IsNum(currClose) \/ ~Gt(prevClose, 0)
           THEN JsNull
           ELSE Percent(RQuot(RSub(currClose, prevClose), currClose))

\* the pct pushed for one symbol, JsNull when the symbol is skipped
StooqSymbolPct(r) ==
  IF r.kind # "http" \/ ~r.ok THEN JsNull
  ELSE IF Len(r.lines) < 2 THEN JsNull
  ELSE LET prevClose == r.lines[Len(r.lines) - 1]
           currClose == r.lines[Len(r.lines)]
       IN  IF ~IsNum(prevClose) \/ ~IsNum(currClose) \/ ~Gt(prevClose, 0)
           THEN JsNull
           ELSE Percent(RQuot(RSub(currClose, prevClose), prevClose))

fetchStooqGlobalMarkets(rs) ==
  LET pct == [i \in DOMAIN STOOQ_GLOBAL_SYMBOLS |-> StooqSymbolPct(rs[i])]
  IN  IF \A i \in DOMAIN pct : pct[i] = JsNull THEN NULL
      ELSE LET regions == [i \in DOMAIN STOOQ_GLOBAL_SYMBOLS |->
                             IF pct[i] = JsNull
                             THEN SymbolPlaceholder(STOOQ_GLOBAL_SYMBOLS[i])
                             ELSE SymbolRegion(STOOQ_GLOBAL_SYMBOLS[i], pct[i])]
           IN  [regions |-> regions,
                direction |-> AvgDirection(regions),
                description |-> "Session tone and regional risk. Data via Stooq."]

(* Yahoo quote.  A call of yf.quote ends as [kind |-> "throw"],            *)
(* [kind |-> "null"], [kind |-> "object", object |-> q] or, for the batch  *)
(* call, [kind |-> "array", array |-> qs].  y.batch is the batch call's    *)
(* outcome and y.per[i] that of the lookup of YAHOO_GLOBAL_SYMBOLS[i].     *)

QNull == [kind |-> "null"]
QObject(q) == [kind |-> "object", object |-> q]
QArray(qs) == [kind |-> "array", array |-> qs]

HasSymbol(q) == q # NULL /\ "symbol" \in DOMAIN q

\* results after the batch call: [] when it threw or returned nothing
YahooBatchResults(b) ==
  IF b.kind = "array" THEN b.array
  ELSE IF b.kind = "object" THEN <<b.object>>
  ELSE <<>>

\* the per-symbol fallback is taken
YahooNeedsPerSymbol(b) ==
  LET results == YahooBatchResults(b)
  IN  results = <<>> \/ \A i \in DOMAIN results : ~HasSymbol(results[i])

RECURSIVE YahooPerSymbolResults(_)
YahooPerSymbolResults(per) ==
  IF per = <<>> THEN <<>>
  ELSE (IF Head(per).kind = "object" THEN <<Head(per).object>> ELSE <<>>)
         \o YahooPerSymbolResults(Tail(per))

YahooRegion(results, sy) ==
  LET q == BySymbol(results, sy.symbol)
      price == Fld(q, "regularMarketPrice")
      change == Coalesce(Fld(q, "regularMarketChange"), Rat(0, 1))
      pct == Coalesce(Fld(q, "regularMarketChangePercent"),
                      PctFromChange(change, price, JsNull))
  IN  IF q = NULL THEN SymbolPlaceholder(sy)
      ELSE IF ~IsNum(pct) THEN SymbolPlaceholder(sy)
      ELSE SymbolRegion(sy, pct)

fetchYahooQuoteGlobalMarkets(y) ==
  IF YahooNeedsPerSymbol(y.batch) /\ \E i \in DOMAIN y.per : y.per[i].kind = "throw"
  THEN NULL
  ELSE
    LET results == IF YahooNeedsPerSymbol(y.batch)
                   THEN YahooPerSymbolResults(y.per)
                   ELSE YahooBatchResults(y.batch)
        regions == [i \in DOMAIN YAHOO_GLOBAL_SYMBOLS |->
                      YahooRegion(results, YAHOO_GLOBAL_SYMBOLS[i])]
    IN  [regions |-> regions,
         direction |-> AvgDirection(regions),
         description |->
           IF Len(NonPlaceholder(regions)) > 0
           THEN "Session tone and regional risk. Data via Yahoo Finance."
           ELSE "Session tone and regional risk across major indices."]

----------------------------------------------------------------------------
(* Sentiment index, headline feed, crypto feed *)

\* parseInt(text, 10) of a numeric text: the integer part; NaN otherwise
ParseInt(p) ==
  IF ~IsNum(p) \/ p.d = 0 THEN NaN
  ELSE Rat((IF p.n < 0 THEN -1 ELSE 1) * (Abs(p.n) \div p.d), 1)

fetchFearGreed_strictBands(r) ==
  LET data == fetchJson(r)
  IN  IF "data" \in DOMAIN data /\ Len(data.data) > 0
      THEN LET e == data.data[1]
               v == ParseInt(Fld(e, "value"))
               label == IF "value_classification" \in DOMAIN e
                           /\ e.value_classification # ""
                        THEN e.value_classification ELSE "Neutral"
               mood == IF IsNum(v) /\ Gt(v, 55) THEN "Risk-on"
                       ELSE IF IsNum(v) /\ Lt(v, 45) THEN "Risk-off"
                       ELSE "Neutral"
           IN  [marketMood |-> mood, fearGreed |-> [value |-> v, label |-> label]]
      ELSE NULL

\* r: the response of api.alternative.me; an entry's value is the number
\* its text denotes (NaN or absent when it denotes none)
fetchFearGreed(r) ==
  LET data == fetchJson(r)
  IN  IF "data" \in DOMAIN data /\ Len(data.data) > 0
      THEN LET e == data.data[1]
               v == ParseInt(Fld(e, "value"))
               label == IF "value_classification" \in DOMAIN e
                           /\ e.value_classification # ""
                        THEN e.value_classification ELSE "Neutral"
               mood == IF IsNum(v) /\ Ge(v, 55) THEN "Risk-on"
                       ELSE IF IsNum(v) /\ ~Gt(v, 45) THEN "Risk-off"
                       ELSE "Neutral"
           IN  [marketMood |-> mood, fearGreed |-> [value |-> v, label |-> label]]
      ELSE NULL

\* a.title && a.source?.name
ArticleUsable(a) ==
  /\ "title" \in DOMAIN a /\ a.title # ""
  /\ "source" \in DOMAIN a /\ "name" \in DOMAIN a.source /\ a.source.name # ""

RECURSIVE MapArticles(_)
MapArticles(as) ==
  IF as = <<>> THEN <<>>
  ELSE <<[source |-> Head(as).source.name, title |-> Head(as).title]>>
         \o MapArticles(Tail(as))

FirstN(q, n) == SubSeq(q, 1, IF Len(q) < n THEN Len(q) ELSE n)

\* the client ended by throwing instead of returning
THROWN == [thrown |-> TRUE]

fetchNewsApi_keyUnchecked(key, r) ==
  LET data == fetchJson(r)
  IN  IF "articles" \in DOMAIN data /\ Len(data.articles) > 0
      THEN IF \E i \in DOMAIN data.articles : data.articles[i] = NULL
           THEN THROWN
           ELSE [topHeadlines |->
                   MapArticles(FirstN(SelectSeq(data.articles, ArticleUsable), 8))]
      ELSE NULL

\* a.title of an entry that is null is a TypeError, which nothing in the
\* client catches
fetchNewsApi(key, r) ==
  IF ~key THEN NULL
  ELSE LET data == fetchJson(r)
       IN  IF "articles" \in DOMAIN data /\ Len(data.articles) > 0
           THEN IF \E i \in DOMAIN data.articles : data.articles[i] = NULL
                THEN THROWN
                ELSE [topHeadlines |->
                        MapArticles(FirstN(SelectSeq(data.articles, ArticleUsable), 8))]
           ELSE NULL

fetchCoinGecko(r) ==
  LET data == fetchJson(r)
      \* data?.coin?.usd is truthy
      CoinPriced(d, coin) == coin \in DOMAIN d /\ Truthy(Fld(d[coin], "usd"))
  IN  IF ~CoinPriced(data, "bitcoin") \/ ~CoinPriced(data, "ethereum") THEN NULL
      ELSE [btc |-> [price |-> data.bitcoin.usd,
                     changePct |-> OrZero(Fld(data.bitcoin, "usd_24h_change"))],
            eth |-> [price |-> data.ethereum.usd,
                     changePct |-> OrZero(Fld(data.ethereum, "usd_24h_change"))]]

----------------------------------------------------------------------------
(* Segment quotes: Alpha Vantage, Yahoo Finance, commodities *)

\* r: the response to one GLOBAL_QUOTE request; the quote's fields hold the
\* numbers parseFloat reads from their texts, "change" absent when the text
\* '09. change' is absent or empty
fetchAlphaVantageQuote(r) ==
  LET data == fetchJson(r)
  IN  IF "GlobalQuote" \notin DOMAIN data \/ "change" \notin DOMAIN data.GlobalQuote
      THEN NULL
      ELSE LET q == data.GlobalQuote
               num(f) == IF f \in DOMAIN q THEN q[f] ELSE NaN
           IN  [change |-> num("change"), changePct |-> num("changePercent"),
                price |-> num("price")]

quoteToResult(q) ==
  IF q = NULL \/ ~Truthy(Fld(q, "regularMarketPrice")) THEN NULL
  ELSE LET price == q.regularMarketPrice
           change == Coalesce(Fld(q, "regularMarketChange"), Rat(0, 1))
       IN  [change |-> change,
            changePct |-> Coalesce(Fld(q, "regularMarketChangePercent"),
                                   PctFromChange(change, price, Rat(0, 1))),
            price |-> price]

\* b: the outcome of yf.quote(['GLD', 'SLV', 'HG=F']).  The result object
\* has a property for each symbol returned (its value may be null); the
\* marker property "object" tells the empty object {} from null.
fetchCommoditiesYahoo(b) ==
  IF b.kind = "throw" THEN NULL
  ELSE LET arr == YahooBatchResults(b)
           symbolOf == [gold |-> "GLD", silver |-> "SLV", copper |-> "HG=F"]
           keys == {f \in DOMAIN symbolOf : BySymbol(arr, symbolOf[f]) # NULL}
       IN  [f \in keys \cup {"object"} |->
              IF f = "object" THEN TRUE
              ELSE quoteToResult(BySymbol(arr, symbolOf[f]))]

\* the four regions built from the segment quotes d
BaseRegions(d) ==
  <<IF d.spy # NULL
    THEN [label |-> "S&P 500", direction |-> pctDir(d.spy.changePct),
          changePct |-> d.spy.changePct]
    ELSE PlaceholderRegion("S&P 500"),
    IF d.vgk # NULL
    THEN [label |-> "Europe", direction |-> pctDir(d.vgk.changePct),
          changePct |-> d.vgk.changePct]
    ELSE PlaceholderRegion("Europe"),
    IF d.ewj # NULL /\ d.ewh # NULL
    THEN LET avg == RDiv(RAdd(d.ewj.changePct, d.ewh.changePct), 2)
         IN  [label |-> "Asia", direction |-> pctDir(avg), changePct |-> avg]
    ELSE IF d.ewj # NULL
    THEN [label |-> "Japan", direction |-> pctDir(d.ewj.changePct),
          changePct |-> d.ewj.changePct]
    ELSE IF d.ewh # NULL
    THEN [label |-> "Hong Kong", direction |-> pctDir(d.ewh.changePct),
          changePct |-> d.ewh.changePct]
    ELSE PlaceholderRegion("Asia"),
    IF d.vxx # NULL
    THEN [label |-> "VIX", direction |-> vixLabel(d.vxx.changePct),
          changePct |-> d.vxx.changePct, vixStyle |-> TRUE]
    ELSE VixPlaceholderRegion>>

\* the ten segments built by fetchAlphaVantage and fetchYahooFinance, which
\* differ in the Global Markets direction and in the provider's name
BaseSegments(d, globalDirection, via) ==
  LET regions == BaseRegions(d)
      globalDesc == IF \E i \in DOMAIN regions : ~IsPlaceholder(regions[i])
                    THEN "Session tone and regional risk. Data via " \o via \o "."
                    ELSE "Market data temporarily unavailable."
      CurrenciesSegment(eurusd) ==
        IF eurusd = NULL
        THEN Seg("Currencies", "flat", "Forex data temporarily unavailable.")
        ELSE IF IsNum(eurusd.change) /\ Gt(eurusd.change, 0)
        THEN Seg("Currencies", "down", "Dollar strengthening vs euro.")
        ELSE IF IsNum(eurusd.change) /\ Lt(eurusd.change, 0)
        THEN Seg("Currencies", "up", "Dollar weakening.")
        ELSE Seg("Currencies", "flat", "DXY range-bound.")
      EnergySegment(xom) ==
        IF xom = NULL
        THEN Seg("Energy & Materials", "flat", "Energy data temporarily unavailable.")
        ELSE Seg("Energy & Materials", pctDir(xom.changePct),
                 "Energy (XOM) " \o SignPrefix(xom.changePct) \o toFixed2(xom.changePct)
                   \o "%. " \o (IF pctDir(xom.changePct) = "down" THEN "Oil pressure."
                                ELSE IF pctDir(xom.changePct) = "up" THEN "Commodities firmer."
                                ELSE "Flat."))
      TechSegment(qqq) ==
        IF qqq = NULL
        THEN Seg("U.S. Growth & Tech", "flat", "Tech data temporarily unavailable.")
        ELSE Seg("U.S. Growth & Tech", pctDir(qqq.changePct),
                 "Nasdaq (QQQ) " \o SignPrefix(qqq.changePct) \o toFixed2(qqq.changePct)
                   \o "%. " \o (IF pctDir(qqq.changePct) = "up" THEN "Tech leading."
                                ELSE IF pctDir(qqq.changePct) = "down" THEN "Growth under pressure."
                                ELSE "Mixed."))
  IN  <<Spread(Seg("Global Markets", globalDirection, globalDesc),
               [regions |-> regions]),
        CurrenciesSegment(d.eurusd),
        Seg("Bonds & Rates", "flat", "Government bonds and credit."),
        Seg("Digital Assets", "flat",
            "Fear & Greed reflects crypto sentiment. Add crypto API for live prices."),
        Seg("Commodities", "flat", "Gold, silver, copper data temporarily unavailable."),
        EnergySegment(d.xom),
        TechSegment(d.qqq),
        Seg("Sector Performance", "flat", "S&P 500 sector ETFs."),
        Seg("Real Estate", "flat", "REITs and property."),
        Seg("Top Movers", "flat", "Biggest gainers and losers.")>>

AV_KEYS == <<"spy", "qqq", "xom", "eurusd", "vgk", "ewj", "ewh", "vxx">>

\* rs[i]: the response to the GLOBAL_QUOTE request for the i-th of
\* SPY, QQQ, XOM, EURUSD, VGK, EWJ, EWH, VXX
fetchAlphaVantage(key, rs) ==
  IF ~key THEN NULL
  ELSE LET d == [f \in {AV_KEYS[i] : i \in DOMAIN AV_KEYS} |->
                   LET i == CHOOSE j \in DOMAIN AV_KEYS : AV_KEYS[j] = f
                   IN  fetchAlphaVantageQuote(rs[i])]
           globalDirection == IF d.spy # NULL THEN pctDir(d.spy.changePct) ELSE "flat"
       IN  [segments |-> BaseSegments(d, globalDirection, "Alpha Vantage")]

YF_SYMBOLS ==
  [spy |-> "SPY", qqq |-> "QQQ", xom |-> "XOM", eurusd |-> "EURUSD=X",
   vgk |-> "VGK", ewj |-> "EWJ", ewh |-> "EWH", vxx |-> "VXX"]

fetchYahooFinance_nullWithoutQuotes(b) ==
  LET results == YahooBatchResults(b)
      d == [f \in DOMAIN YF_SYMBOLS |-> quoteToResult(BySymbol(results, YF_SYMBOLS[f]))]
      regions == BaseRegions(d)
      globalDirection == IF d.spy # NULL THEN pctDir(d.spy.changePct)
                         ELSE pctDir(Fld(regions[1], "changePct"))
  IN  IF results = <<>> THEN NULL
      ELSE [segments |-> BaseSegments(d, globalDirection, "Yahoo Finance")]

\* b: the outcome of yf.quote(symbolList)
fetchYahooFinance(b) ==
  LET results == YahooBatchResults(b)
      d == [f \in DOMAIN YF_SYMBOLS |-> quoteToResult(BySymbol(results, YF_SYMBOLS[f]))]
      regions == BaseRegions(d)
      globalDirection == IF d.spy # NULL THEN pctDir(d.spy.changePct)
                         ELSE pctDir(Fld(regions[1], "changePct"))
  IN  [segments |-> BaseSegments(d, globalDirection, "Yahoo Finance")]

----------------------------------------------------------------------------
(* Headline synthesis.  The three string functions it applies to a title   *)
(* (the regular expression that strips a trailing " - Source", toLowerCase *)
(* and includes) are tabulated for the titles the feed delivers here.      *)

HEADLINE_TABLE ==
  {[title |-> "Dollar falls as Fed holds - Reuters",
    stem  |-> "Dollar falls as Fed holds",
    words |-> {"dollar", "fall"}],
   [title |-> "TESLA leads Tech rally - CNBC",
    stem  |-> "TESLA leads Tech rally",
    words |-> {"tesla", "tech"}]}

\* all.join(' ').toLowerCase().includes(word)
LowerIncludes(all, word) ==
  \E i \in DOMAIN all :
    word \in (CHOOSE h \in HEADLINE_TABLE : h.title = all[i]).words

NewsDirection(all, topics, downWords) ==
  IF \E w \in topics : LowerIncludes(all, w)
  THEN (IF \E w \in downWords : LowerIncludes(all, w) THEN "down" ELSE "up")
  ELSE "flat"

synthesizeFromNews(headlines, topHeadlines) ==
  LET all == headlines \o [i \in DOMAIN topHeadlines |-> topHeadlines[i].title]
      inc(w) == LowerIncludes(all, w)
      \* title.replace(/\s*-\s*[^-]+$/, '').trim()
      TitleStem(title) == (CHOOSE h \in HEADLINE_TABLE : h.title = title).stem
      segments ==
        <<Spread(Seg("Global Markets", "flat",
                     IF inc("market") \/ inc("stock") \/ inc("s&p")
                     THEN "Headlines drive session." ELSE "Markets digesting news."),
                 [regions |-> <<PlaceholderRegion("S&P 500"), PlaceholderRegion("Europe"),
                                PlaceholderRegion("Asia"), VixPlaceholderRegion>>]),
          Seg("Currencies", NewsDirection(all, {"dollar", "currency"}, {"hurt", "fall"}),
              IF inc("dollar") THEN "Dollar in focus per headlines." ELSE "FX quiet."),
          Seg("Bonds & Rates", "flat", "Government bonds and credit."),
          Seg("Digital Assets", "flat", "Crypto sentiment from Fear & Greed. No live prices."),
          Seg("Commodities", "flat", "Gold, silver, copper data temporarily unavailable."),
          Seg("Energy & Materials",
              NewsDirection(all, {"oil", "commodit"}, {"retreat", "fall"}),
              IF inc("oil") \/ inc("critical minerals")
              THEN "Energy and commodities in headlines." ELSE "Materials mixed."),
          Seg("U.S. Growth & Tech",
              NewsDirection(all, {"tesla", "tech"}, {"slash", "fall"}),
              IF inc("tesla") \/ inc("tech")
              THEN "Tech names in focus." ELSE "Growth stocks digesting news."),
          Seg("Sector Performance", "flat", "S&P 500 sector ETFs."),
          Seg("Real Estate", "flat", "REITs and property."),
          Seg("Top Movers", "flat", "Biggest gainers and losers.")>>
  IN  IF all = <<>> THEN [segments |-> segments]
      ELSE [segments |-> segments,
            bigPicture |->
              "Today's focus: " \o TitleStem(all[1])
                \o (IF Len(all) > 1 THEN ". " \o TitleStem(all[2]) ELSE "")
                \o ". Markets reacting to headlines."]

----------------------------------------------------------------------------
(* What the providers can answer *)

LiveIdx == (1 .. MaxLive) \cup {Len(FMP_GLOBAL_SYMBOLS)}

IsVixIdx(i) == i = Len(FMP_GLOBAL_SYMBOLS)

Compact(q) == SelectSeq(q, LAMBDA x : x # NULL)

FmpQuote(i, case) ==
  LET symbol == FMP_GLOBAL_SYMBOLS[i].symbol
  IN  IF case = "nopct" THEN [symbol |-> symbol, price |-> Rat(100, 1)]
      ELSE IF IsVixIdx(i)
      THEN [symbol |-> symbol, change |-> Rat(1, 1), price |-> Rat(21, 1)]
      ELSE IF i % 2 = 1 THEN [symbol |-> symbol, changesPercentage |-> Rat(20 * i, 1)]
      ELSE [symbol |-> symbol, changePercent |-> Rat(-20 * i, 1)]

FmpResponses ==
  {Throw, NotOk, Ok([error |-> "Limit Reach"])}
    \cup {Ok([array |-> Compact([i \in DOMAIN FMP_GLOBAL_SYMBOLS |->
                          IF i \in LiveIdx /\ c[i] # "absent"
                          THEN FmpQuote(i, c[i]) ELSE NULL])]) :
            c \in [LiveIdx -> {"absent", "nopct", "real"}]}

StooqResponse(i, case) ==
  IF case = "throw" THEN Throw
  ELSE IF case = "notok" THEN NotOk
  ELSE IF case = "short" THEN Csv(<<NaN, Rat(101, 1)>>)
  ELSE Csv(<<NaN, Rat(100, 1),
             Rat(IF IsVixIdx(i) THEN 100 ELSE IF i % 2 = 1 THEN 100 + i ELSE 100 - i, 1)>>)

StooqResponses ==
  {[i \in DOMAIN STOOQ_GLOBAL_SYMBOLS |->
      IF i \in LiveIdx THEN StooqResponse(i, c[i]) ELSE Throw] :
     c \in [LiveIdx -> {"throw", "notok", "short", "real"}]}

YahooQuote(i, case) ==
  LET symbol == YAHOO_GLOBAL_SYMBOLS[i].symbol
  IN  IF case = "nopct" THEN [symbol |-> symbol, regularMarketPrice |-> Rat(100, 1)]
      ELSE IF IsVixIdx(i)
      THEN [symbol |-> symbol, regularMarketPrice |-> Rat(22, 1),
            regularMarketChange |-> Rat(2, 1)]
      ELSE [symbol |-> symbol, regularMarketPrice |-> Rat(100, 1),
            regularMarketChangePercent |-> Rat(-35 * i, 1)]

YahooBatchOutcomes ==
  {Throw, QNull}
    \cup {QArray(Compact([i \in DOMAIN YAHOO_GLOBAL_SYMBOLS |->
                    IF i \in LiveIdx /\ c[i] # "absent"
                    THEN YahooQuote(i, c[i]) ELSE NULL])) :
            c \in [LiveIdx -> {"absent", "nopct", "real"}]}

YahooPerOutcomes ==
  {[i \in DOMAIN YAHOO_GLOBAL_SYMBOLS |->
      IF i \notin LiveIdx \/ c[i] = "null" THEN QNull
      ELSE IF c[i] = "throw" THEN Throw
      ELSE QObject(YahooQuote(i, c[i]))] :
     c \in [LiveIdx -> {"null", "throw", "nopct", "real"}]}

\* one entry of the sentiment response
FngEntries ==
  {[value |-> Rat(72, 1), value_classification |-> "Greed"],
   [value |-> Rat(55, 1), value_classification |-> "Greed"],
   [value |-> Rat(45, 1), value_classification |-> "Fear"],
   [value |-> Rat(50, 1)],
   [value |-> Rat(150, 1), value_classification |-> "Extreme Greed"],
   [value |-> NaN, value_classification |-> "Fear"],
   [value_classification |-> "Fear"]}

FngResponses ==
  {Throw, NotOk, Ok([data |-> <<>>])} \cup {Ok([data |-> <<e>>]) : e \in FngEntries}

NewsResponses ==
  {Throw, Ok([status |-> "error"]), Ok([articles |-> <<>>]),
   Ok([articles |-> <<NULL>>]),
   Ok([articles |->
         <<[title |-> "Dollar falls as Fed holds - Reuters", source |-> [name |-> "Reuters"]],
           [title |-> "Untitled source", source |-> [id |-> "x"]],
           [title |-> "TESLA leads Tech rally - CNBC", source |-> [name |-> "CNBC"]]>>])}

CoinGeckoResponses ==
  {Throw,
   Ok([bitcoin |-> [usd |-> Rat(60000, 1), usd_24h_change |-> Rat(200, 1)]]),
   Ok([bitcoin |-> [usd |-> Rat(60000, 1), usd_24h_change |-> Rat(200, 1)],
       ethereum |-> [usd |-> Rat(3000, 1), usd_24h_change |-> Rat(-100, 1)]]),
   Ok([bitcoin |-> [usd |-> Rat(59000, 1), usd_24h_change |-> Rat(-50, 1)],
       ethereum |-> [usd |-> Rat(3100, 1), usd_24h_change |-> Rat(10, 1)]])}

CommodityOutcomes ==
  {Throw,
   QArray(<<[symbol |-> "GLD", regularMarketPrice |-> Rat(180, 1),
             regularMarketChangePercent |-> Rat(65, 1)],
            [symbol |-> "SLV"]>>)}

AvResponses ==
  LET AvQuote(change, changePercent, price) ==
        Ok([GlobalQuote |-> [change |-> change, changePercent |-> changePercent,
                             price |-> price]])
  IN
  {[i \in DOMAIN AV_KEYS |-> Throw],
   [i \in DOMAIN AV_KEYS |->
      IF AV_KEYS[i] = "spy" THEN AvQuote(Rat(2, 1), Rat(45, 1), Rat(500, 1))
      ELSE IF AV_KEYS[i] = "xom" THEN AvQuote(Rat(-1, 1), NaN, Rat(110, 1))
      ELSE IF AV_KEYS[i] = "eurusd" THEN AvQuote(Rat(-1, 100), Rat(-10, 1), Rat(1, 1))
      ELSE IF AV_KEYS[i] = "ewj" THEN AvQuote(Rat(1, 1), Rat(150, 1), Rat(70, 1))
      ELSE IF AV_KEYS[i] = "vgk" THEN Ok([Note |-> "rate limit"])
      ELSE NotOk]}

YahooFinanceOutcomes ==
  {Throw,
   QArray(<<[symbol |-> "SPY", regularMarketPrice |-> Rat(500, 1),
             regularMarketChange |-> Rat(-4, 1),
             regularMarketChangePercent |-> Rat(-80, 1)],
            [symbol |-> "QQQ", regularMarketPrice |-> Rat(404, 1),
             regularMarketChange |-> Rat(4, 1)],
            [symbol |-> "EWJ", regularMarketPrice |-> Rat(70, 1),
             regularMarketChangePercent |-> Rat(40, 1)],
            [symbol |-> "EWH", regularMarketPrice |-> Rat(20, 1),
             regularMarketChangePercent |-> Rat(21, 1)],
            [symbol |-> "VXX"]>>)}

----------------------------------------------------------------------------
(* main *)

\* a result not yet there, a client not called
PENDING   == [pending |-> TRUE]
NOTCALLED == [notcalled |-> TRUE]

Rejected_absentOnly(g) ==
  \/ "regions" \notin DOMAIN g
  \/ Len(g.regions) = 0

\* !g?.regions?.length || g.regions.every(r => r.placeholder)
Rejected(g) ==
  \/ "regions" \notin DOMAIN g
  \/ Len(g.regions) = 0
  \/ \A i \in DOMAIN g.regions : IsPlaceholder(g.regions[i])

ApplyFngNews_clearsHeadlines(b, f, n) ==
  LET b1 == IF f # NULL
            THEN [b EXCEPT !.marketMood = f.marketMood, !.fearGreed = f.fearGreed]
            ELSE b
  IN  [b1 EXCEPT !.topHeadlines = IF n # NULL THEN n.topHeadlines ELSE <<>>]

\* if (fng) {...}  if (news) {...}
ApplyFngNews(b, f, n) ==
  LET b1 == IF f # NULL
            THEN [b EXCEPT !.marketMood = f.marketMood, !.fearGreed = f.fearGreed]
            ELSE b
  IN  IF n # NULL THEN [b1 EXCEPT !.topHeadlines = n.topHeadlines] ELSE b1

\* av?.segments?.length
HasSegments(x) == "segments" \in DOMAIN x /\ Len(x.segments) > 0

MainIdle ==
  /\ env = [hasFmp |-> FALSE, hasNews |-> FALSE, hasAv |-> FALSE]
  /\ pc = "idle" /\ calls = {}
  /\ fng = NOTCALLED /\ news = NOTCALLED /\ fmpGlobal = NOTCALLED
  /\ stooqGlobal = NOTCALLED /\ yahooGlobal = NOTCALLED
  /\ globalMarkets = NOTCALLED /\ crypto = NOTCALLED /\ commodities = NOTCALLED
  /\ syn = NOTCALLED /\ av = NOTCALLED /\ yahoo = NOTCALLED
  /\ briefing = FALLBACK /\ written = NULL

\* main starts the four clients of Promise.all; a client without its key
\* returns null at once, and FMP's is not called at all without a key
Start ==
  /\ pc = "start"
  /\ UNCHANGED <<toneVars, mergeVars, driverVars, clientVars>>
  /\ pc' = "awaitAll"
  /\ calls' = {"fearGreed", "stooq"}
                \cup (IF env.hasNews THEN {"newsApi"} ELSE {})
                \cup (IF env.hasFmp THEN {"fmp"} ELSE {})
  /\ fng' = PENDING
  /\ news' = IF env.hasNews THEN PENDING ELSE fetchNewsApi(FALSE, Throw)
  /\ fmpGlobal' = IF env.hasFmp THEN PENDING ELSE NULL
  /\ stooqGlobal' = PENDING
  /\ UNCHANGED <<env, yahooGlobal, globalMarkets, crypto, commodities, syn, av,
                 yahoo, briefing, written>>

FearGreedResolves ==
  /\ pc = "awaitAll" /\ fng = PENDING
  /\ UNCHANGED <<toneVars, mergeVars, driverVars, clientVars>>
  /\ \E r \in FngResponses : fng' = fetchFearGreed(r)
  /\ UNCHANGED <<env, pc, calls, news, fmpGlobal, stooqGlobal, yahooGlobal,
                 globalMarkets, crypto, commodities, syn, av, yahoo, briefing,
                 written>>

\* a client that throws rejects Promise.all and with it main, whose catch
\* handler ends the process with status 1
NewsResolves ==
  /\ pc = "awaitAll" /\ news = PENDING
  /\ UNCHANGED <<toneVars, mergeVars, driverVars, clientVars>>
  /\ \E r \in NewsResponses : news' = fetchNewsApi(env.hasNews, r)
  /\ pc' = IF news' = THROWN THEN "failed" ELSE pc
  /\ UNCHANGED <<env, calls, fng, fmpGlobal, stooqGlobal, yahooGlobal,
                 globalMarkets, crypto, commodities, syn, av, yahoo, briefing,
                 written>>

FmpResolves ==
  /\ pc = "awaitAll" /\ fmpGlobal = PENDING
  /\ UNCHANGED <<toneVars, mergeVars, driverVars, clientVars>>
  /\ \E r \in FmpResponses : fmpGlobal' = fetchFmpGlobalMarkets(env.hasFmp, r)
  /\ UNCHANGED <<env, pc, calls, fng, news, stooqGlobal, yahooGlobal,
                 globalMarkets, crypto, commodities, syn, av, yahoo, briefing,
                 written>>

StooqResolves ==
  /\ pc = "awaitAll" /\ stooqGlobal = PENDING
  /\ UNCHANGED <<toneVars, mergeVars, driverVars, clientVars>>
  /\ \E rs \in StooqResponses : stooqGlobal' = fetchStooqGlobalMarkets(rs)
  /\ UNCHANGED <<env, pc, calls, fng, news, fmpGlobal, yahooGlobal,
                 globalMarkets, crypto, commodities, syn, av, yahoo, briefing,
                 written>>

\* Promise.all has resolved: pick FMP's result, else Stooq's; when that too is
\* rejected call the Yahoo quote client, else go on to the crypto feed
Join ==
  /\ pc = "awaitAll"
  /\ UNCHANGED <<toneVars, mergeVars, driverVars, clientVars>>
  /\ PENDING \notin {fng, news, fmpGlobal, stooqGlobal}
  /\ LET g == IF Rejected(fmpGlobal) THEN stooqGlobal ELSE fmpGlobal
     IN  /\ globalMarkets' = g
         /\ IF Rejected(g)
            THEN /\ pc' = "awaitYahooQuote"
                 /\ calls' = calls \cup {"yahooQuote"}
                 /\ yahooGlobal' = PENDING
                 /\ UNCHANGED briefing
            ELSE /\ pc' = "awaitCrypto"
                 /\ calls' = calls \cup {"coinGecko"}
                 /\ briefing' = ApplyFngNews(briefing, fng, news)
                 /\ UNCHANGED yahooGlobal
  /\ crypto' = IF pc' = "awaitCrypto" THEN PENDING ELSE crypto
  /\ UNCHANGED <<env, fng, news, fmpGlobal, stooqGlobal, commodities, syn, av,
                 yahoo, written>>

YahooQuoteResolves ==
  /\ pc = "awaitYahooQuote"
  /\ UNCHANGED <<toneVars, mergeVars, driverVars, clientVars>>
  /\ \E b \in YahooBatchOutcomes :
       \E per \in IF YahooNeedsPerSymbol(b) THEN YahooPerOutcomes
                  ELSE {[i \in DOMAIN YAHOO_GLOBAL_SYMBOLS |-> QNull]} :
         /\ yahooGlobal' = fetchYahooQuoteGlobalMarkets([batch |-> b, per |-> per])
         /\ globalMarkets' = yahooGlobal'
  /\ briefing' = ApplyFngNews(briefing, fng, news)
  /\ pc' = "awaitCrypto"
  /\ calls' = calls \cup {"coinGecko"}
  /\ crypto' = PENDING
  /\ UNCHANGED <<env, fng, news, fmpGlobal, stooqGlobal, commodities, syn, av,
                 yahoo, written>>

CoinGeckoResolves_mergesEarly ==
  /\ pc = "awaitCrypto"
  /\ UNCHANGED <<toneVars, mergeVars, driverVars, clientVars>>
  /\ \E r \in CoinGeckoResponses : crypto' = fetchCoinGecko(r)
  /\ pc' = "awaitCommodities"
  /\ calls' = calls \cup {"commoditiesYahoo"}
  /\ commodities' = PENDING
  /\ briefing' = [briefing EXCEPT
                    !.segments = mergeCryptoIntoSegments(briefing.segments, crypto')]
  /\ UNCHANGED <<env, fng, news, fmpGlobal, stooqGlobal, yahooGlobal,
                 globalMarkets, syn, av, yahoo, written>>

CoinGeckoResolves ==
  /\ pc = "awaitCrypto"
  /\ UNCHANGED <<toneVars, mergeVars, driverVars, clientVars>>
  /\ \E r \in CoinGeckoResponses : crypto' = fetchCoinGecko(r)
  /\ pc' = "awaitCommodities"
  /\ calls' = calls \cup {"commoditiesYahoo"}
  /\ commodities' = PENDING
  /\ UNCHANGED <<env, fng, news, fmpGlobal, stooqGlobal, yahooGlobal,
                 globalMarkets, syn, av, yahoo, briefing, written>>

\* the commodity quotes are in: synthesize from the news, set bigPicture, and
\* call Alpha Vantage with a key, Yahoo Finance without
CommoditiesResolve ==
  /\ pc = "awaitCommodities"
  /\ UNCHANGED <<toneVars, mergeVars, driverVars, clientVars>>
  /\ \E b \in CommodityOutcomes : commodities' = fetchCommoditiesYahoo(b)
  /\ syn' = IF news # NULL THEN synthesizeFromNews(<<>>, briefing.topHeadlines)
            ELSE NULL
  /\ briefing' = IF "bigPicture" \in DOMAIN syn'
                 THEN [briefing EXCEPT !.bigPicture = syn'.bigPicture]
                 ELSE briefing
  /\ IF env.hasAv
     THEN /\ pc' = "awaitAlphaVantage"
          /\ calls' = calls \cup {"alphaVantage"}
          /\ av' = PENDING /\ UNCHANGED yahoo
     ELSE /\ pc' = "awaitYahooFinance"
          /\ calls' = calls \cup {"yahooFinance"}
          /\ av' = NULL /\ yahoo' = PENDING
  /\ UNCHANGED <<env, fng, news, fmpGlobal, stooqGlobal, yahooGlobal,
                 globalMarkets, crypto, written>>

\* the base segments are chosen and the ten merges applied; the record is
\* then ready to be written
Assemble(b, a, y) ==
  LET base == IF HasSegments(a) THEN a.segments
              ELSE IF HasSegments(y) THEN y.segments
              ELSE IF HasSegments(syn) THEN syn.segments
              ELSE b.segments
  IN  [b EXCEPT !.segments =
         mergeTopMoversIntoSegments(
           mergeRealEstateIntoSegments(
             mergeSectorPerformanceIntoSegments(
               mergeUsGrowthTechIntoSegments(
                 mergeEnergyIntoSegments(
                   mergeCommoditiesIntoSegments(
                     mergeCryptoIntoSegments(
                       mergeBondsRatesIntoSegments(
                         mergeCurrenciesIntoSegments(
                           mergeGlobalMarketsRegions(base, globalMarkets))),
                       crypto),
                     commodities))))))]

AlphaVantageResolves ==
  /\ pc = "awaitAlphaVantage"
  /\ UNCHANGED <<toneVars, mergeVars, driverVars, clientVars>>
  /\ \E rs \in AvResponses : av' = fetchAlphaVantage(env.hasAv, rs)
  /\ IF HasSegments(av')
     THEN /\ yahoo' = NULL
          /\ briefing' = Assemble(briefing, av', NULL)
          /\ pc' = "write"
          /\ UNCHANGED calls
     ELSE /\ yahoo' = PENDING
          /\ pc' = "awaitYahooFinance"
          /\ calls' = calls \cup {"yahooFinance"}
          /\ UNCHANGED briefing
  /\ UNCHANGED <<env, fng, news, fmpGlobal, stooqGlobal, yahooGlobal,
                 globalMarkets, crypto, commodities, syn, written>>

YahooFinanceResolves ==
  /\ pc = "awaitYahooFinance"
  /\ UNCHANGED <<toneVars, mergeVars, driverVars, clientVars>>
  /\ \E b \in YahooFinanceOutcomes : yahoo' = fetchYahooFinance(b)
  /\ briefing' = Assemble(briefing, av, yahoo')
  /\ pc' = "write"
  /\ UNCHANGED <<env, calls, fng, news, fmpGlobal, stooqGlobal, yahooGlobal,
                 globalMarkets, crypto, commodities, syn, av, written>>

\* the record read back from JSON.stringify(briefing, null, 2)
\* (a number that is NaN or infinite is written as null)
Stringify(b) ==
  LET JsonNumber(p) == IF IsNum(p) /\ p.d # 0 THEN p ELSE JsNull
      JsonNumbers(o, fields) ==
        [f \in DOMAIN o |-> IF f \in fields THEN JsonNumber(o[f]) ELSE o[f]]
      JsonSegment(s) ==
        [f \in DOMAIN s |->
           IF f = "regions"
           THEN [i \in DOMAIN s.regions |-> JsonNumbers(s.regions[i], {"changePct"})]
           ELSE IF f = "tickers"
           THEN [i \in DOMAIN s.tickers |->
                   JsonNumbers(s.tickers[i], {"price", "changePct"})]
           ELSE s[f]]
  IN  [b EXCEPT !.fearGreed = JsonNumbers(b.fearGreed, {"value"}),
                !.segments = [i \in DOMAIN b.segments |-> JsonSegment(b.segments[i])]]

\* the record is stamped with the time and the local date of the run, then
\* fs.writeFileSync(OUTPUT_FILE, JSON.stringify(briefing))
WriteRecord ==
  /\ pc = "write"
  /\ UNCHANGED <<toneVars, mergeVars, driverVars, clientVars>>
  /\ briefing' = Spread(briefing, [updatedAt |-> "runTime", date |-> "runDate"])
  /\ written' = Stringify(briefing')
  /\ pc' = "done"
  /\ UNCHANGED <<env, calls, fng, news, fmpGlobal, stooqGlobal, yahooGlobal,
                 globalMarkets, crypto, commodities, syn, av, yahoo>>

\* fs.mkdirSync or fs.writeFileSync throws: main is rejected and the process
\* ends with status 1
WriteFails ==
  /\ pc = "write"
  /\ UNCHANGED <<toneVars, mergeVars, driverVars, clientVars>>
  /\ briefing' = Spread(briefing, [updatedAt |-> "runTime", date |-> "runDate"])
  /\ pc' = "failed"
  /\ UNCHANGED <<env, calls, fng, news, fmpGlobal, stooqGlobal, yahooGlobal,
                 globalMarkets, crypto, commodities, syn, av, yahoo, written>>

Next ==
  \/ Start
  \/ FearGreedResolves
  \/ NewsResolves
  \/ FmpResolves
  \/ StooqResolves
  \/ Join
  \/ YahooQuoteResolves
  \/ CoinGeckoResolves
  \/ CommoditiesResolve
  \/ AlphaVantageResolves
  \/ YahooFinanceResolves
  \/ WriteRecord
  \/ WriteFails

----------------------------------------------------------------------------
(* The classifiers on their own: an input is drawn and each classifier is   *)
(* applied to it once.                                                     *)

NoTone ==
  [pctDir |-> "", toneFromPct |-> "", vixToneFromPct |-> "", vixLabel |-> ""]

ToneIdle == tPct = JsNull /\ tRes = NoTone

CallPctDir ==
  /\ tRes.pctDir = ""
  /\ tRes' = [tRes EXCEPT !.pctDir = pctDir(tPct)]
  /\ UNCHANGED <<tPct, mergeVars, mainVars, driverVars, clientVars>>

CallToneFromPct ==
  /\ tRes.toneFromPct = ""
  /\ tRes' = [tRes EXCEPT !.toneFromPct = toneFromPct(tPct)]
  /\ UNCHANGED <<tPct, mergeVars, mainVars, driverVars, clientVars>>

CallVixToneFromPct ==
  /\ tRes.vixToneFromPct = ""
  /\ tRes' = [tRes EXCEPT !.vixToneFromPct = vixToneFromPct(tPct)]
  /\ UNCHANGED <<tPct, mergeVars, mainVars, driverVars, clientVars>>

CallVixLabel ==
  /\ tRes.vixLabel = ""
  /\ tRes' = [tRes EXCEPT !.vixLabel = vixLabel(tPct)]
  /\ UNCHANGED <<tPct, mergeVars, mainVars, driverVars, clientVars>>

ToneNext ==
  \/ CallPctDir
  \/ CallToneFromPct
  \/ CallVixToneFromPct
  \/ CallVixLabel

----------------------------------------------------------------------------
(* The merge functions on their own: a segment list is drawn and up to     *)
(* MaxMerges merge calls are made on it, each with a provider output.      *)

MergeArgs(op) ==
  IF op = "globalMarkets"
  THEN
    {fetchFmpGlobalMarkets(TRUE, Throw),
     fetchFmpGlobalMarkets(TRUE, Ok([array |-> <<FmpQuote(1, "nopct")>>])),
     fetchFmpGlobalMarkets(TRUE, Ok([array |-> <<FmpQuote(1, "real")>>])),
     fetchStooqGlobalMarkets([i \in DOMAIN STOOQ_GLOBAL_SYMBOLS |->
                                StooqResponse(i, "real")])}
  ELSE IF op = "crypto" THEN {fetchCoinGecko(r) : r \in CoinGeckoResponses}
  ELSE IF op = "commodities" THEN {fetchCommoditiesYahoo(b) : b \in CommodityOutcomes}
  ELSE {NULL}

MergeOps ==
  {"globalMarkets", "currencies", "bondsRates", "crypto", "commodities",
   "energy", "usGrowthTech", "sectorPerformance", "realEstate", "topMovers"}

ApplyMerge(op, segments, arg) ==
  CASE op = "globalMarkets" -> mergeGlobalMarketsRegions(segments, arg)
    [] op = "currencies" -> mergeCurrenciesIntoSegments(segments)
    [] op = "bondsRates" -> mergeBondsRatesIntoSegments(segments)
    [] op = "crypto" -> mergeCryptoIntoSegments(segments, arg)
    [] op = "commodities" -> mergeCommoditiesIntoSegments(segments, arg)
    [] op = "energy" -> mergeEnergyIntoSegments(segments)
    [] op = "usGrowthTech" -> mergeUsGrowthTechIntoSegments(segments)
    [] op = "sectorPerformance" -> mergeSectorPerformanceIntoSegments(segments)
    [] op = "realEstate" -> mergeRealEstateIntoSegments(segments)
    [] op = "topMovers" -> mergeTopMoversIntoSegments(segments)

MergeIdle ==
  mSegs = <<>> /\ mPrev = <<>> /\ mOp = "none" /\ mArg = NULL /\ mCalls = 0

\* the call of mOp' on the list
MergeStep ==
  /\ mCalls < MaxMerges
  /\ \E arg \in MergeArgs(mOp') :
       /\ mSegs' = ApplyMerge(mOp', mSegs, arg)
       /\ mArg' = arg
  /\ mPrev' = mSegs
  /\ mCalls' = mCalls + 1
  /\ UNCHANGED <<toneVars, mainVars, driverVars, clientVars>>

CallMergeGlobalMarkets == mOp' = "globalMarkets" /\ MergeStep

CallMergeCurrencies == mOp' = "currencies" /\ MergeStep

CallMergeBondsRates == mOp' = "bondsRates" /\ MergeStep

CallMergeCrypto == mOp' = "crypto" /\ MergeStep

CallMergeCommodities == mOp' = "commodities" /\ MergeStep

CallMergeEnergy == mOp' = "energy" /\ MergeStep

CallMergeUsGrowthTech == mOp' = "usGrowthTech" /\ MergeStep

CallMergeSectorPerformance == mOp' = "sectorPerformance" /\ MergeStep

CallMergeRealEstate == mOp' = "realEstate" /\ MergeStep

CallMergeTopMovers == mOp' = "topMovers" /\ MergeStep

MergeNext ==
  \/ CallMergeGlobalMarkets
  \/ CallMergeCurrencies
  \/ CallMergeBondsRates
  \/ CallMergeCrypto
  \/ CallMergeCommodities
  \/ CallMergeEnergy
  \/ CallMergeUsGrowthTech
  \/ CallMergeSectorPerformance
  \/ CallMergeRealEstate
  \/ CallMergeTopMovers

----------------------------------------------------------------------------
(* build.js: the market drivers of the page.  The string functions applied  *)
(* to a description (split(/[.;]/)[0].trim() and the case-insensitive       *)
(* test for placeholder phrasing) are tabulated for the descriptions read   *)
(* here; the arrow glyphs for up, flat and down are written ^, - and v.     *)

DESCRIPTION_TABLE ==
  {[text |-> "", first |-> "", phrase |-> FALSE],
   [text |-> "Government bonds and credit.",
    first |-> "Government bonds and credit", phrase |-> TRUE],
   [text |-> "Add API keys for live data.",
    first |-> "Add API keys for live data", phrase |-> TRUE],
   [text |-> "Tech data temporarily unavailable.",
    first |-> "Tech data temporarily unavailable", phrase |-> TRUE],
   [text |-> "Dollar weakening.", first |-> "Dollar weakening", phrase |-> FALSE],
   [text |-> "Nasdaq (QQQ) +0.99%. Tech leading.",
    first |-> "Nasdaq (QQQ) +0", phrase |-> FALSE],
   [text |-> "Session tone and regional risk. Data via FMP.",
    first |-> "Session tone and regional risk", phrase |-> FALSE],
   [text |-> "Session tone and regional risk across major indices.",
    first |-> "Session tone and regional risk across major indices",
    phrase |-> FALSE]}

one_noLengthCheck(label, seg) ==
  IF seg = NULL THEN ""
  ELSE LET d == IF "direction" \in DOMAIN seg /\ seg.direction # ""
                THEN seg.direction ELSE "flat"
           dirShort == IF d = "up" THEN "^" ELSE IF d = "down" THEN "v" ELSE "-"
           row == CHOOSE t \in DESCRIPTION_TABLE :
                    t.text = (IF "description" \in DOMAIN seg
                              THEN seg.description ELSE "")
           desc == row.first
           skipDesc == desc = "" \/ row.phrase
       IN  IF ~skipDesc THEN label \o ": " \o dirShort \o " " \o desc
           ELSE IF d = "flat" THEN label \o ": " \o dirShort
           ELSE label \o ": " \o dirShort \o " "
                  \o (IF d = "up" THEN "higher" ELSE "lower")

\* the driver of one segment; null, for a missing segment, is written as the
\* empty string (both are falsy, and no driver is empty)
one(label, seg) ==
  IF seg = NULL THEN ""
  ELSE LET d == IF "direction" \in DOMAIN seg /\ seg.direction # ""
                THEN seg.direction ELSE "flat"
           dirShort == IF d = "up" THEN "^" ELSE IF d = "down" THEN "v" ELSE "-"
           row == CHOOSE t \in DESCRIPTION_TABLE :
                    t.text = (IF "description" \in DOMAIN seg
                              THEN seg.description ELSE "")
           desc == row.first
           skipDesc == desc = "" \/ Len(desc) > 40 \/ row.phrase
       IN  IF ~skipDesc THEN label \o ": " \o dirShort \o " " \o desc
           ELSE IF d = "flat" THEN label \o ": " \o dirShort
           ELSE label \o ": " \o dirShort \o " "
                  \o (IF d = "up" THEN "higher" ELSE "lower")

getMarketDrivers_fxAlways(data) ==
  IF "marketDrivers" \in DOMAIN data /\ Len(data.marketDrivers) > 0
  THEN FirstN(data.marketDrivers, 5)
  ELSE
    LET segments == IF "segments" \in DOMAIN data THEN data.segments ELSE <<>>
        byName(name) ==
          LET found == SelectSeq(segments, LAMBDA s : s.name = name)
          IN  IF found = <<>> THEN NULL ELSE Head(found)
        fg == IF "fearGreed" \in DOMAIN data /\ "value" \in DOMAIN data.fearGreed
              THEN data.fearGreed.value ELSE 50
        fgLabel == IF "fearGreed" \in DOMAIN data /\ "label" \in DOMAIN data.fearGreed
                   THEN data.fearGreed.label ELSE "Neutral"
        push(drivers, x) == IF x # "" THEN Append(drivers, x) ELSE drivers
        rates == one("Rates", byName("Bonds & Rates"))
        tech == IF one("Tech", byName("U.S. Growth & Tech")) # ""
                THEN one("Tech", byName("U.S. Growth & Tech"))
                ELSE one("Crypto", byName("Digital Assets"))
        macro == one("Macro", byName("Global Markets"))
        fx == one("FX", byName("Currencies"))
        d3 == push(push(push(<<>>, rates), tech), macro)
        d4 == IF fx # "" THEN Append(d3, fx) ELSE d3
        volText == IF fg <= 25 THEN "Elevated, skew bearish"
                   ELSE IF fg >= 60 THEN "Subdued, risk-on" ELSE "Neutral"
    IN  FirstN(Append(d4, "Volatility: " \o volText \o " (F&G " \o ToString(fg)
                            \o " " \o fgLabel \o ")"), 4)

getMarketDrivers(data) ==
  IF "marketDrivers" \in DOMAIN data /\ Len(data.marketDrivers) > 0
  THEN FirstN(data.marketDrivers, 5)
  ELSE
    LET segments == IF "segments" \in DOMAIN data THEN data.segments ELSE <<>>
        byName(name) ==
          LET found == SelectSeq(segments, LAMBDA s : s.name = name)
          IN  IF found = <<>> THEN NULL ELSE Head(found)
        fg == IF "fearGreed" \in DOMAIN data /\ "value" \in DOMAIN data.fearGreed
              THEN data.fearGreed.value ELSE 50
        fgLabel == IF "fearGreed" \in DOMAIN data /\ "label" \in DOMAIN data.fearGreed
                   THEN data.fearGreed.label ELSE "Neutral"
        push(drivers, x) == IF x # "" THEN Append(drivers, x) ELSE drivers
        rates == one("Rates", byName("Bonds & Rates"))
        tech == IF one("Tech", byName("U.S. Growth & Tech")) # ""
                THEN one("Tech", byName("U.S. Growth & Tech"))
                ELSE one("Crypto", byName("Digital Assets"))
        macro == one("Macro", byName("Global Markets"))
        fx == one("FX", byName("Currencies"))
        d3 == push(push(push(<<>>, rates), tech), macro)
        d4 == IF fx # "" /\ Len(d3) < 3 THEN Append(d3, fx) ELSE d3
        volText == IF fg <= 25 THEN "Elevated, skew bearish"
                   ELSE IF fg >= 60 THEN "Subdued, risk-on" ELSE "Neutral"
    IN  FirstN(Append(d4, "Volatility: " \o volText \o " (F&G " \o ToString(fg)
                            \o " " \o fgLabel \o ")"), 4)

\* no client is followed request by request
ClientIdle ==
  cWho = "none" /\ cPc = "idle" /\ cNow = 0 /\ cFlight = {} /\ cLog = <<>>

\* dDrivers is the list returned, empty before the call (getMarketDrivers
\* returns no empty list)
DriversIdle == dData = NULL /\ dDrivers = <<>>

\* the record read: any subset of the five segments the drivers come from,
\* with one direction and one description, a sentiment reading or none, and
\* drivers supplied with the record or not
InitDrivers ==
  /\ \E present \in SUBSET {"Bonds & Rates", "U.S. Growth & Tech", "Digital Assets",
                            "Global Markets", "Currencies"} :
       \E dir \in {[direction |-> d] : d \in {"up", "down", "flat"}} \cup {<<>>} :
         \E desc \in {[description |-> t.text] : t \in DESCRIPTION_TABLE} \cup {<<>>} :
           \E fg \in {<<>>,
                      [fearGreed |-> [value |-> 25, label |-> "Extreme Fear"]],
                      [fearGreed |-> [value |-> 60, label |-> "Greed"]],
                      [fearGreed |-> [value |-> 50]]} :
             \E given \in {<<>>,
                           [marketDrivers |-> <<"a", "b", "c", "d", "e", "f">>]} :
               dData = Spread(Spread(fg, given),
                         [segments |->
                            SelectSeq([i \in DOMAIN FALLBACK.segments |->
                                         Spread(Spread([name |-> FALLBACK.segments[i].name],
                                                       dir), desc)],
                                      LAMBDA s : s.name \in present)])
  /\ dDrivers = <<>>
  /\ ToneIdle /\ MergeIdle /\ MainIdle /\ ClientIdle

CallGetMarketDrivers ==
  /\ dDrivers = <<>>
  /\ dDrivers' = getMarketDrivers(dData)
  /\ UNCHANGED <<dData, toneVars, mergeVars, mainVars, clientVars>>

----------------------------------------------------------------------------
(* The requests of one client, in time.  The clock counts tenths of a      *)
(* second from the client's call.  cLog lists the requests issued, each    *)
(* with the time of issue (at) and, once settled, the time it settled      *)
(* (end) and how (out); cFlight holds the positions in cLog of the         *)
(* requests in flight.                                                     *)

\* AbortSignal.timeout(15000), created once per call of the Stooq client
StooqTimeout == 150
\* setTimeout(r, 200) after each Stooq symbol
StooqDelay == 2
\* setTimeout(r, 300) after each per-symbol Yahoo lookup
YahooDelay == 3
\* AbortSignal.timeout(10000) of each fetchJson request
FetchJsonTimeout == 100
\* setTimeout(r, 65000) between the two groups of Alpha Vantage lookups
AlphaVantageDelay == 650

\* the client is called and issues its first request(s): the Yahoo quote
\* client its batch call, Stooq the request for its first symbol, Alpha
\* Vantage five lookups at once
InitClients ==
  /\ cWho \in {"yahooQuote", "stooq", "alphaVantage"}
  /\ cNow = 0
  /\ cPc = IF cWho = "alphaVantage" THEN "first" ELSE IF cWho = "stooq" THEN "fetch"
           ELSE "batch"
  /\ cLog = IF cWho = "yahooQuote" THEN <<[req |-> "batch", at |-> 0]>>
            ELSE IF cWho = "stooq"
            THEN <<[req |-> STOOQ_GLOBAL_SYMBOLS[1].symbol, at |-> 0]>>
            ELSE [i \in 1 .. 5 |-> [req |-> AV_KEYS[i], at |-> 0]]
  /\ cFlight = DOMAIN cLog
  /\ ToneIdle /\ MergeIdle /\ MainIdle /\ DriversIdle

YahooQuoteBatchSettles_alwaysPerSymbol ==
  /\ cWho = "yahooQuote" /\ cPc = "batch"
  /\ \E b \in YahooBatchOutcomes :
       LET settled == [end |-> cNow, out |-> b.kind,
                       symbols |-> Len(SelectSeq(YahooBatchResults(b), HasSymbol))]
       IN  /\ cLog' = <<Spread(cLog[1], settled),
                        [req |-> YAHOO_GLOBAL_SYMBOLS[1].symbol, at |-> cNow]>>
           /\ cFlight' = {2}
           /\ cPc' = "lookup"
  /\ UNCHANGED <<cWho, cNow, toneVars, mergeVars, mainVars, driverVars>>

\* the batch call settles (logged with the number of its entries that carry
\* a symbol); the per-symbol loop starts when it threw or no entry of its
\* result carries a symbol
YahooQuoteBatchSettles ==
  /\ cWho = "yahooQuote" /\ cPc = "batch"
  /\ \E b \in YahooBatchOutcomes :
       LET settled == [end |-> cNow, out |-> b.kind,
                       symbols |-> Len(SelectSeq(YahooBatchResults(b), HasSymbol))]
       IN  IF YahooNeedsPerSymbol(b)
           THEN /\ cLog' = <<Spread(cLog[1], settled),
                             [req |-> YAHOO_GLOBAL_SYMBOLS[1].symbol, at |-> cNow]>>
                /\ cFlight' = {2}
                /\ cPc' = "lookup"
           ELSE /\ cLog' = <<Spread(cLog[1], settled)>>
                /\ cFlight' = {}
                /\ cPc' = "done"
  /\ UNCHANGED <<cWho, cNow, toneVars, mergeVars, mainVars, driverVars>>

\* the lookup in flight settles: a throw ends the client, anything else is
\* followed by the delay
YahooQuoteLookupSettles ==
  /\ cWho = "yahooQuote" /\ cPc = "lookup"
  /\ \E out \in {"throw", "null", "object"} :
       /\ cLog' = [cLog EXCEPT ![Len(cLog)] = Spread(@, [end |-> cNow, out |-> out])]
       /\ cPc' = IF out = "throw" THEN "done" ELSE "delay"
  /\ cFlight' = {}
  /\ UNCHANGED <<cWho, cNow, toneVars, mergeVars, mainVars, driverVars>>

\* the delay is over: the next symbol is looked up, if there is one
YahooQuoteDelayElapses ==
  /\ cWho = "yahooQuote" /\ cPc = "delay"
  /\ cNow' = cNow + YahooDelay
  /\ IF Len(cLog) - 1 < Len(YAHOO_GLOBAL_SYMBOLS)
     THEN /\ cLog' = Append(cLog, [req |-> YAHOO_GLOBAL_SYMBOLS[Len(cLog)].symbol,
                                   at |-> cNow'])
          /\ cFlight' = {Len(cLog')}
          /\ cPc' = "lookup"
     ELSE /\ cPc' = "done"
          /\ UNCHANGED <<cLog, cFlight>>
  /\ UNCHANGED <<cWho, toneVars, mergeVars, mainVars, driverVars>>

\* the request in flight settles.  The server needs latency tenths to
\* answer; all requests carry the one signal created at time 0, so a
\* request issued after StooqTimeout is rejected at once and one in flight
\* at StooqTimeout is aborted then.
StooqFetchSettles ==
  /\ cWho = "stooq" /\ cPc = "fetch"
  /\ \E latency \in {1, 70, 200} :
       LET r == cLog[Len(cLog)]
           settled ==
             IF r.at >= StooqTimeout THEN [end |-> r.at, out |-> "aborted"]
             ELSE IF r.at + latency >= StooqTimeout
             THEN [end |-> StooqTimeout, out |-> "aborted"]
             ELSE [end |-> r.at + latency, out |-> "answered"]
       IN  /\ cLog' = [cLog EXCEPT ![Len(cLog)] =
                         Spread(@, Spread(settled, [latency |-> latency]))]
           /\ cNow' = settled.end
  /\ cFlight' = {}
  /\ cPc' = "delay"
  /\ UNCHANGED <<cWho, toneVars, mergeVars, mainVars, driverVars>>

\* the delay after a symbol is over: the next symbol is requested, if any
StooqDelayElapses ==
  /\ cWho = "stooq" /\ cPc = "delay"
  /\ cNow' = cNow + StooqDelay
  /\ IF Len(cLog) < Len(STOOQ_GLOBAL_SYMBOLS)
     THEN /\ cLog' = Append(cLog, [req |-> STOOQ_GLOBAL_SYMBOLS[Len(cLog) + 1].symbol,
                                   at |-> cNow'])
          /\ cFlight' = {Len(cLog')}
          /\ cPc' = "fetch"
     ELSE /\ cPc' = "done"
          /\ UNCHANGED <<cLog, cFlight>>
  /\ UNCHANGED <<cWho, toneVars, mergeVars, mainVars, driverVars>>

\* one of the lookups in flight settles, within fetchJson's timeout, at a
\* time not before the clock
AlphaVantageQuoteSettles ==
  /\ cWho = "alphaVantage" /\ cPc \in {"first", "second"}
  /\ \E i \in cFlight : \E latency \in {1, 40, FetchJsonTimeout} :
       /\ cLog[i].at + latency >= cNow
       /\ cNow' = cLog[i].at + latency
       /\ cLog' = [cLog EXCEPT ![i] = Spread(@, [end |-> cNow'])]
       /\ cFlight' = cFlight \ {i}
       /\ cPc' = IF cPc = "second" /\ cFlight' = {} THEN "done" ELSE cPc
  /\ UNCHANGED <<cWho, toneVars, mergeVars, mainVars, driverVars>>

AlphaVantageDelayElapses_shortDelay ==
  /\ cWho = "alphaVantage" /\ cPc = "first" /\ cFlight = {}
  /\ cNow' = cNow + 550
  /\ cLog' = cLog \o [i \in 1 .. 3 |-> [req |-> AV_KEYS[5 + i], at |-> cNow']]
  /\ cFlight' = 6 .. 8
  /\ cPc' = "second"
  /\ UNCHANGED <<cWho, toneVars, mergeVars, mainVars, driverVars>>

\* the first five lookups have settled and the delay is over: the other
\* three are issued
AlphaVantageDelayElapses ==
  /\ cWho = "alphaVantage" /\ cPc = "first" /\ cFlight = {}
  /\ cNow' = cNow + AlphaVantageDelay
  /\ cLog' = cLog \o [i \in 1 .. 3 |-> [req |-> AV_KEYS[5 + i], at |-> cNow']]
  /\ cFlight' = 6 .. 8
  /\ cPc' = "second"
  /\ UNCHANGED <<cWho, toneVars, mergeVars, mainVars, driverVars>>

----------------------------------------------------------------------------
(* Specifications *)

Init ==
  /\ env \in [hasFmp : BOOLEAN, hasNews : BOOLEAN, hasAv : BOOLEAN]
  /\ pc = "start" /\ calls = {}
  /\ fng = NOTCALLED /\ news = NOTCALLED /\ fmpGlobal = NOTCALLED
  /\ stooqGlobal = NOTCALLED /\ yahooGlobal = NOTCALLED
  /\ globalMarkets = NOTCALLED /\ crypto = NOTCALLED /\ commodities = NOTCALLED
  /\ syn = NOTCALLED /\ av = NOTCALLED /\ yahoo = NOTCALLED
  /\ briefing = FALLBACK /\ written = NULL
  /\ ToneIdle /\ MergeIdle /\ DriversIdle /\ ClientIdle

\* one run of main under every combination of provider outcomes
Spec == Init /\ [][Next]_vars

InitTone ==
  /\ tPct \in {JsNull, NaN} \cup {Rat(n, d) : n \in (-MaxPct) .. MaxPct, d \in 1 .. MaxDen}
  /\ tRes = NoTone
  /\ MergeIdle /\ MainIdle /\ DriversIdle /\ ClientIdle

\* the four classifiers applied to one input
SpecTone == InitTone /\ [][ToneNext]_vars

InitMerge ==
  /\ mSegs \in
      {FALLBACK.segments,
       fetchYahooFinance(CHOOSE b \in YahooFinanceOutcomes : b.kind = "array").segments,
       <<>>,
       <<Seg("Currencies", "up", "Dollar weakening."),
         Seg("Watchlist", "down", "Not a category of the briefing."),
         Spread(Seg("Digital Assets", "up", "Earlier run."),
                [tickers |-> <<T("DOGE", "Dogecoin")>>]),
         Seg("Currencies", "flat", "FX quiet.")>>}
  /\ mPrev = mSegs /\ mOp = "none" /\ mArg = NULL /\ mCalls = 0
  /\ ToneIdle /\ MainIdle /\ DriversIdle /\ ClientIdle

\* merge calls applied to a segment list
SpecMerge == InitMerge /\ [][MergeNext]_vars

\* getMarketDrivers applied to one record
SpecDrivers == InitDrivers /\ [][CallGetMarketDrivers]_vars

\* the requests of one call of the Yahoo quote, Stooq or Alpha Vantage client
SpecClients ==
  InitClients /\ [][\/ YahooQuoteBatchSettles
                    \/ YahooQuoteLookupSettles
                    \/ YahooQuoteDelayElapses
                    \/ StooqFetchSettles
                    \/ StooqDelayElapses
                    \/ AlphaVantageQuoteSettles
                    \/ AlphaVantageDelayElapses]_vars

----------------------------------------------------------------------------
(* Properties of the classifiers (SpecTone) *)

\* r is the three-way answer for a number pct: the positive word strictly
\* above hi, the negative word strictly below lo, the neutral word between
\* (lo, hi in hundredths of a percent; both ends give the neutral word)
ThreeWayOpen(r, pct, lo, hi, pos, neg, neutral) ==
  /\ (r = pos) <=> (pct.n > hi * pct.d)
  /\ (r = neg) <=> (pct.n < lo * pct.d)
  /\ (r = neutral) <=> (pct.n >= lo * pct.d /\ pct.n <= hi * pct.d)

\* r is the banded answer for a number pct: the positive word from hi on,
\* the negative word strictly below lo, the neutral word on [lo, hi)
ThreeWayBanded(r, pct, lo, hi, pos, neg, neutral) ==
  /\ (r = pos) <=> (pct.n >= hi * pct.d)
  /\ (r = neg) <=> (pct.n < lo * pct.d)
  /\ (r = neutral) <=> (pct.n >= lo * pct.d /\ pct.n < hi * pct.d)

\* C3, as the specification states it: for every numeric pct both pctDir and
\* toneFromPct give up iff pct > 0.3, down iff pct < -0.3 and flat on
\* [-0.3, 0.3].
C3_BothFollowPoint3 ==
  IsNum(tPct) =>
    /\ tRes.pctDir # "" =>
         ThreeWayOpen(tRes.pctDir, tPct, -30, 30, "up", "down", "flat")
    /\ tRes.toneFromPct # "" =>
         ThreeWayOpen(tRes.toneFromPct, tPct, -30, 30, "up", "down", "flat")

\* C3, as the code has it: for every numeric pct, pctDir gives up iff
\* pct > 0.3, down iff pct < -0.3 and flat on [-0.3, 0.3]; toneFromPct gives
\* up iff pct >= 0.15, down iff pct < -0.15 and flat on [-0.15, 0.15).
C3_DirectionBands ==
  IsNum(tPct) =>
    /\ tRes.pctDir # "" =>
         ThreeWayOpen(tRes.pctDir, tPct, -30, 30, "up", "down", "flat")
    /\ tRes.toneFromPct # "" =>
         ThreeWayBanded(tRes.toneFromPct, tPct, -15, 15, "up", "down", "flat")

\* pct = 0.30 exactly: flat by the three-way rule, up by the five bands
C3_Witness ==
  tPct = Rat(30, 1) /\ tRes.pctDir = "flat" /\ tRes.toneFromPct = "up"

\* C4, as the specification states it: for every numeric pct both vixLabel
\* and vixToneFromPct give elevated iff pct > 0.3, subdued iff pct < -0.3 and
\* steady otherwise.
C4_BothFollowPoint3 ==
  IsNum(tPct) =>
    /\ tRes.vixLabel # "" =>
         ThreeWayOpen(tRes.vixLabel, tPct, -30, 30,
                      "elevated", "subdued", "steady")
    /\ tRes.vixToneFromPct # "" =>
         ThreeWayOpen(tRes.vixToneFromPct, tPct, -30, 30,
                      "elevated", "subdued", "steady")

\* C4, as the code has it: for every numeric pct, vixLabel gives elevated iff
\* pct > 0.3, subdued iff pct < -0.3 and steady on [-0.3, 0.3];
\* vixToneFromPct gives elevated iff pct >= 0.15, subdued iff pct < -0.15 and
\* steady on [-0.15, 0.15).
C4_VolatilityBands ==
  IsNum(tPct) =>
    /\ tRes.vixLabel # "" =>
         ThreeWayOpen(tRes.vixLabel, tPct, -30, 30,
                      "elevated", "subdued", "steady")
    /\ tRes.vixToneFromPct # "" =>
         ThreeWayBanded(tRes.vixToneFromPct, tPct, -15, 15,
                        "elevated", "subdued", "steady")

\* pct = -0.20: steady by the three-way rule, subdued by the five bands
C4_Witness ==
  tPct = Rat(-20, 1) /\ tRes.vixLabel = "steady"
    /\ tRes.vixToneFromPct = "subdued"

\* C5: for a null, undefined or NaN pct pctDir and toneFromPct return flat
\* and vixLabel and vixToneFromPct return steady; and for every input each
\* classifier's result is one of up, down, flat resp. elevated, subdued,
\* steady.
C5_NeutralAndClosed ==
  /\ ~IsNum(tPct) =>
       /\ tRes.pctDir \in {"", "flat"}
       /\ tRes.toneFromPct \in {"", "flat"}
       /\ tRes.vixLabel \in {"", "steady"}
       /\ tRes.vixToneFromPct \in {"", "steady"}
  /\ tRes.pctDir \in {"", "up", "down", "flat"}
  /\ tRes.toneFromPct \in {"", "up", "down", "flat"}
  /\ tRes.vixLabel \in {"", "elevated", "subdued", "steady"}
  /\ tRes.vixToneFromPct \in {"", "elevated", "subdued", "steady"}

\* NaN has gone through all four classifiers
C5_Witness ==
  tPct = NaN /\ tRes.pctDir = "flat" /\ tRes.toneFromPct = "flat"
    /\ tRes.vixLabel = "steady" /\ tRes.vixToneFromPct = "steady"

----------------------------------------------------------------------------
(* Properties of the merge functions (SpecMerge) *)

\* the segment name each merge function is written for
MergeTarget(op) ==
  CASE op = "globalMarkets" -> "Global Markets"
    [] op = "currencies" -> "Currencies"
    [] op = "bondsRates" -> "Bonds & Rates"
    [] op = "crypto" -> "Digital Assets"
    [] op = "commodities" -> "Commodities"
    [] op = "energy" -> "Energy & Materials"
    [] op = "usGrowthTech" -> "U.S. Growth & Tech"
    [] op = "sectorPerformance" -> "Sector Performance"
    [] op = "realEstate" -> "Real Estate"
    [] op = "topMovers" -> "Top Movers"

\* C6: after any merge call the list has the length it had before, the same
\* names at the same positions, and every segment whose name is not the
\* called function's target name is the segment that was there before.
C6_MergeFrame ==
  mOp # "none" =>
    /\ Len(mSegs) = Len(mPrev)
    /\ \A i \in DOMAIN mPrev :
         /\ mSegs[i].name = mPrev[i].name
         /\ mPrev[i].name # MergeTarget(mOp) => mSegs[i] = mPrev[i]

\* a merge has rewritten its target in a list that also holds a segment of no
\* category and two segments of one name
C6_Witness ==
  /\ mOp = "currencies"
  /\ Len(mSegs) = 4
  /\ mSegs[2].name = "Watchlist"
  /\ mSegs[1] # mPrev[1] /\ mSegs[4] # mPrev[4]
  /\ mSegs[1].tickers = CURRENCY_PLACEHOLDERS

\* C7: applying the merge function just called a second time, with the same
\* provider output, returns the list the first call returned.
C7_MergeIdempotent ==
  mOp # "none" => ApplyMerge(mOp, mSegs, mArg) = mSegs

\* the crypto merge has run twice with live quotes on a list whose Digital
\* Assets segment held tickers before: seven tickers, not fourteen
C7_Witness ==
  /\ mCalls = 2 /\ mOp = "crypto" /\ Has(mArg, "btc")
  /\ mPrev = mSegs
  /\ \E i \in DOMAIN mSegs :
       /\ mSegs[i].name = "Digital Assets"
       /\ Len(mSegs[i].tickers) = 2 + Len(DIGITAL_ASSETS_ADDITIONAL)

\* C8: the merge function just called commutes with every other merge
\* function: calling another function, with any provider output, after it
\* gives the list that calling it after the other function gives.
C8_MergesCommute ==
  mOp # "none" =>
    \A op2 \in MergeOps \ {mOp} :
      \A arg2 \in MergeArgs(op2) :
        ApplyMerge(op2, mSegs, arg2)
          = ApplyMerge(mOp, ApplyMerge(op2, mPrev, arg2), mArg)

\* live index regions merged after live crypto quotes, both into the full
\* ten-segment list
C8_Witness ==
  /\ mCalls = 2 /\ mOp = "globalMarkets" /\ UseGlobal(mArg)
  /\ Len(mSegs) = 10
  /\ mSegs[1].regions = mArg.regions
  /\ mPrev[1] # mSegs[1]
  /\ "tickers" \in DOMAIN mPrev[4]
  /\ Len(mPrev[4].tickers) = 2 + Len(DIGITAL_ASSETS_ADDITIONAL)

----------------------------------------------------------------------------
(* Properties of main (Spec) *)

\* main has made its choice of the Global Markets data
AfterSelection ==
  pc \in {"awaitCrypto", "awaitCommodities", "awaitAlphaVantage",
          "awaitYahooFinance", "write", "done"}

\* a region with a real value
RealEntry(r) == "placeholder" \notin DOMAIN r \/ r.placeholder = FALSE

\* a candidate's result with at least one real value
Accepted(g) ==
  "regions" \in DOMAIN g /\ \E i \in DOMAIN g.regions : RealEntry(g.regions[i])

\* the Global Markets segments of the written record
WrittenGlobal ==
  {written.segments[i] : i \in {j \in DOMAIN written.segments :
                                  written.segments[j].name = "Global Markets"}}

\* C1: once main has chosen, the Global Markets data is the result of FMP
\* (called only with its key) if that has a non-placeholder region, else
\* Stooq's if that has one, else the Yahoo quote client's, which is called
\* exactly when the first two are rejected; a chosen result with a
\* non-placeholder region is what the written Global Markets segment carries.
C1_FirstAcceptedSelected ==
  AfterSelection =>
    /\ ("fmp" \in calls) <=> env.hasFmp
    /\ ~env.hasFmp => fmpGlobal = NULL
    /\ ("yahooQuote" \in calls) <=> (~Accepted(fmpGlobal) /\ ~Accepted(stooqGlobal))
    /\ globalMarkets = IF Accepted(fmpGlobal) THEN fmpGlobal
                       ELSE IF Accepted(stooqGlobal) THEN stooqGlobal
                       ELSE yahooGlobal
    /\ (written # NULL /\ Accepted(globalMarkets)) =>
         /\ WrittenGlobal # {}
         /\ \A s \in WrittenGlobal :
              /\ s.regions = globalMarkets.regions
              /\ s.direction = globalMarkets.direction
              /\ s.description = globalMarkets.description

\* FMP answered with placeholders only, Stooq with exactly one real value, and
\* the record written carries Stooq's regions
C1_Witness ==
  /\ written # NULL
  /\ env.hasFmp /\ "regions" \in DOMAIN fmpGlobal
  /\ Len(fmpGlobal.regions) = Len(FMP_GLOBAL_SYMBOLS)
  /\ \A i \in DOMAIN fmpGlobal.regions : ~RealEntry(fmpGlobal.regions[i])
  /\ "regions" \in DOMAIN stooqGlobal
  /\ Cardinality({i \in DOMAIN stooqGlobal.regions :
                    RealEntry(stooqGlobal.regions[i])}) = 1
  /\ globalMarkets = stooqGlobal
  /\ \E s \in WrittenGlobal : s.regions = stooqGlobal.regions

\* the labels of the static outline
OutlineLabels ==
  <<"S&P 500", "Dow Jones", "Nasdaq", "Euro Stoxx 50", "DAX", "Nikkei 225",
    "Hang Seng", "Shanghai Composite", "VIX">>

\* C2: when the results of FMP, Stooq and the Yahoo quote client are all
\* rejected, the Global Markets segment of the written record has the nine
\* regions S&P 500 ... VIX, each with placeholder = true and no changePct.
C2_AllRejectedOutline ==
  (written # NULL /\ ~Accepted(fmpGlobal) /\ ~Accepted(stooqGlobal)
     /\ ~Accepted(yahooGlobal)) =>
    /\ WrittenGlobal # {}
    /\ \A s \in WrittenGlobal :
         /\ [i \in DOMAIN s.regions |-> s.regions[i].label] = OutlineLabels
         /\ \A i \in DOMAIN s.regions :
              /\ "placeholder" \in DOMAIN s.regions[i]
              /\ s.regions[i].placeholder = TRUE
              /\ "changePct" \notin DOMAIN s.regions[i]

\* all three candidates were called and rejected while Yahoo Finance's base
\* segments held a real S&P 500 region; the record written holds the outline
C2_Witness ==
  /\ written # NULL
  /\ {"fmp", "stooq", "yahooQuote"} \subseteq calls
  /\ ~Accepted(fmpGlobal) /\ ~Accepted(stooqGlobal) /\ ~Accepted(yahooGlobal)
  /\ "segments" \in DOMAIN yahoo
  /\ RealEntry(yahoo.segments[1].regions[1])
  /\ \E s \in WrittenGlobal : Len(s.regions) = Len(OutlineLabels)

\* the ten categories, in order
CategoryNames ==
  <<"Global Markets", "Currencies", "Bonds & Rates", "Digital Assets",
    "Commodities", "Energy & Materials", "U.S. Growth & Tech",
    "Sector Performance", "Real Estate", "Top Movers">>

\* C9: the names of the written record's segments are the ten category
\* names, each once, in the fixed order, whatever the providers answered.
C9_TenSegments ==
  written # NULL =>
    [i \in DOMAIN written.segments |-> written.segments[i].name] = CategoryNames

\* a record written with no key configured and every request failed
C9_Witness ==
  /\ written # NULL
  /\ env = [hasFmp |-> FALSE, hasNews |-> FALSE, hasAv |-> FALSE]
  /\ fng = NULL /\ news = NULL /\ crypto = NULL /\ commodities = NULL
  /\ ~Accepted(stooqGlobal) /\ ~Accepted(yahooGlobal)
  /\ \A i \in DOMAIN yahoo.segments[1].regions :
       ~RealEntry(yahoo.segments[1].regions[i])
  /\ Len(written.segments) = 10

\* C10: in the written record marketMood and fearGreed are the baseline's
\* (Neutral, {50, Neutral}) when the sentiment index is unavailable and the
\* index's otherwise (its value when that is a number); topHeadlines is the
\* baseline's when the headline feed is unavailable and the feed's otherwise;
\* bigPicture is the baseline's when the feed is unavailable.  No other
\* provider's outcome enters.
C10_BaselineKept ==
  written # NULL =>
    /\ fng = NULL =>
         /\ written.marketMood = "Neutral"
         /\ written.fearGreed = [value |-> Rat(50, 1), label |-> "Neutral"]
    /\ fng # NULL =>
         /\ written.marketMood = fng.marketMood
         /\ written.fearGreed.label = fng.fearGreed.label
         /\ IsNum(fng.fearGreed.value) =>
              written.fearGreed.value = fng.fearGreed.value
    /\ news = NULL =>
         /\ written.topHeadlines = FALLBACK.topHeadlines
         /\ written.bigPicture = FALLBACK.bigPicture
    /\ news # NULL => written.topHeadlines = news.topHeadlines

\* sentiment index and headline feed both unavailable (the feed's key is
\* configured) while crypto quotes and index quotes arrived
C10_Witness ==
  /\ written # NULL
  /\ env.hasNews /\ fng = NULL /\ news = NULL
  /\ crypto # NULL /\ Accepted(globalMarkets)
  /\ written.topHeadlines = FALLBACK.topHeadlines

\* C11: in the written record the Global Markets segment has a non-empty
\* regions list and no tickers, and every other segment has a non-empty
\* tickers list and no regions.
C11_RegionsOrTickers ==
  written # NULL =>
    \A i \in DOMAIN written.segments :
      LET s == written.segments[i]
      IN  IF s.name = "Global Markets"
          THEN /\ "regions" \in DOMAIN s /\ Len(s.regions) > 0
               /\ "tickers" \notin DOMAIN s
          ELSE /\ "tickers" \in DOMAIN s /\ Len(s.tickers) > 0
               /\ "regions" \notin DOMAIN s

\* a record written with live index regions, live crypto quotes and a live
\* gold quote
C11_Witness ==
  /\ written # NULL
  /\ Accepted(globalMarkets) /\ crypto # NULL /\ Has(commodities, "gold")
  /\ Len(written.segments) = 10
  /\ written.segments[1].regions = globalMarkets.regions
  /\ Len(written.segments[4].tickers) = 2 + Len(DIGITAL_ASSETS_ADDITIONAL)
  /\ written.segments[5].tickers[1].symbol = "GLD"

\* C12: every region of the written record has placeholder = true exactly
\* when it has no changePct, a direction among elevated, subdued, steady when
\* it is volatility-style and among up, down, flat when it is not.
C12_RegionShape ==
  written # NULL =>
    \A s \in WrittenGlobal :
      \A i \in DOMAIN s.regions :
        LET r == s.regions[i]
        IN  /\ ("placeholder" \in DOMAIN r /\ r.placeholder = TRUE)
                 <=> ("changePct" \notin DOMAIN r)
            /\ IF "vixStyle" \in DOMAIN r /\ r.vixStyle = TRUE
               THEN r.direction \in {"elevated", "subdued", "steady"}
               ELSE r.direction \in {"up", "down", "flat"}

\* the written regions are the Yahoo quote client's, with a real volatility
\* entry that moved and a placeholder beside it
C12_Witness ==
  /\ written # NULL
  /\ globalMarkets = yahooGlobal /\ Accepted(yahooGlobal)
  /\ \E s \in WrittenGlobal :
       /\ s.regions = yahooGlobal.regions
       /\ \E i \in DOMAIN s.regions :
            /\ "vixStyle" \in DOMAIN s.regions[i]
            /\ "changePct" \in DOMAIN s.regions[i]
            /\ s.regions[i].direction \in {"elevated", "subdued"}
       /\ \E i \in DOMAIN s.regions : ~RealEntry(s.regions[i])

\* C13: no provider client ends by throwing, and the process ends with status
\* 1 only from the write step, i.e. only when writing the record fails.
C13_OnlyWriteFails ==
  [][/\ THROWN \notin {fng', news', fmpGlobal', stooqGlobal', yahooGlobal',
                       crypto', commodities', av', yahoo'}
     /\ pc' = "failed" => pc = "write"]_vars

\* C14: without its key the headline feed client, the FMP client and the
\* Alpha Vantage client return null whatever the network would answer, and
\* main's run issues no request of theirs.
C14_NoKeyNoRequest ==
  /\ \A r \in NewsResponses : fetchNewsApi(FALSE, r) = NULL
  /\ \A r \in FmpResponses : fetchFmpGlobalMarkets(FALSE, r) = NULL
  /\ \A rs \in AvResponses : fetchAlphaVantage(FALSE, rs) = NULL
  /\ pc # "start" =>
       /\ ~env.hasNews => news = NULL /\ "newsApi" \notin calls
       /\ ~env.hasFmp => fmpGlobal = NULL /\ "fmp" \notin calls
       /\ ~env.hasAv => av \in {NOTCALLED, NULL} /\ "alphaVantage" \notin calls

\* a run with none of the three keys has written its record
C14_Witness ==
  /\ pc = "done" /\ written # NULL
  /\ env = [hasFmp |-> FALSE, hasNews |-> FALSE, hasAv |-> FALSE]
  /\ news = NULL /\ fmpGlobal = NULL /\ av = NULL
  /\ calls \cap {"newsApi", "fmp", "alphaVantage"} = {}
  /\ "yahooFinance" \in calls

\* the mood of a sentiment value
MoodOf(v) ==
  IF v.n >= 55 * v.d THEN "Risk-on"
  ELSE IF v.n <= 45 * v.d THEN "Risk-off"
  ELSE "Neutral"

\* C15: for a sentiment response with the whole number v, the client returns
\* the mood Risk-on if v >= 55, Risk-off if v <= 45, Neutral otherwise, the
\* value v and the provider's classification as label; the written record
\* has the client's mood, value and label; and marketMood is always one of
\* Risk-on, Risk-off, Neutral.
C15_SentimentMood ==
  /\ \A e \in FngEntries :
       ("value" \in DOMAIN e /\ IsNum(e.value)) =>
         LET f == fetchFearGreed(Ok([data |-> <<e>>]))
         IN  /\ f.marketMood = MoodOf(e.value)
             /\ f.fearGreed.value = e.value
             /\ "value_classification" \in DOMAIN e =>
                  f.fearGreed.label = e.value_classification
  /\ written # NULL =>
       /\ written.marketMood \in {"Risk-on", "Risk-off", "Neutral"}
       /\ (fng # NULL /\ IsNum(fng.fearGreed.value)) =>
            /\ written.marketMood = MoodOf(fng.fearGreed.value)
            /\ written.fearGreed = fng.fearGreed

\* the index returned 72, Greed
C15_Witness ==
  /\ written # NULL /\ fng # NULL
  /\ fng.fearGreed.value = Rat(72, 1)
  /\ written.marketMood = "Risk-on"
  /\ written.fearGreed = [value |-> Rat(72, 1), label |-> "Greed"]

\* C16: in the written record fearGreed.value is a whole number from 0 to
\* 100, and it is the baseline's 50 whenever the sentiment response's value
\* is missing, not a number or outside 0..100.
C16_SentimentInRange ==
  written # NULL =>
    LET v == written.fearGreed.value
    IN  /\ IsNum(v) /\ v.d = 1 /\ v.n >= 0 /\ v.n <= 100
        /\ (fng # NULL /\ ~(IsNum(fng.fearGreed.value)
                             /\ fng.fearGreed.value.n >= 0
                             /\ fng.fearGreed.value.n <= 100)) => v = Rat(50, 1)

\* the Digital Assets segments of the written record
WrittenDigital ==
  {written.segments[i] : i \in {j \in DOMAIN written.segments :
                                  written.segments[j].name = "Digital Assets"}}

\* the name-only tickers
NameOnlyTickers ==
  <<T("DOGE", "Dogecoin"), T("SOL", "Solana"), T("XRP", "XRP"),
    T("ADA", "Cardano"), T("AVAX", "Avalanche")>>

\* a change with its sign and two decimals
Signed2(p) == (IF p.n >= 0 THEN "+" ELSE "") \o toFixed2(p)

\* C17: when the crypto feed returned both prices, the written Digital Assets
\* segment has the three-way direction (up above 0.3, down below -0.3, else
\* flat) of the mean of the two 24h changes, a description with both changes
\* signed and to two decimals, and the tickers BTC/USD and ETH/USD with their
\* prices followed by the five name-only tickers; when the feed is
\* unavailable or a price is missing, the direction is flat and the tickers
\* are the five name-only ones.
C17_DigitalAssets ==
  /\ \A r \in CoinGeckoResponses :
       LET d == fetchJson(r)
       IN  (fetchCoinGecko(r) # NULL)
             <=> (/\ "bitcoin" \in DOMAIN d /\ "usd" \in DOMAIN d.bitcoin
                  /\ "ethereum" \in DOMAIN d /\ "usd" \in DOMAIN d.ethereum)
  /\ written # NULL =>
       /\ WrittenDigital # {}
       /\ \A s \in WrittenDigital :
            IF crypto # NULL
            THEN LET b == crypto.btc.changePct
                     e == crypto.eth.changePct
                     twice == RAdd(b, e)
                 IN  /\ ThreeWayOpen(s.direction, twice, -60, 60,
                                     "up", "down", "flat")
                     /\ s.description = "BTC " \o Signed2(b) \o "%, ETH "
                          \o Signed2(e) \o "%. Fear & Greed for sentiment."
                     /\ s.tickers =
                          <<[symbol |-> "BTC/USD", name |-> "Bitcoin",
                             price |-> crypto.btc.price, changePct |-> b],
                            [symbol |-> "ETH/USD", name |-> "Ethereum",
                             price |-> crypto.eth.price, changePct |-> e]>>
                            \o NameOnlyTickers
            ELSE /\ s.direction = "flat"
                 /\ s.tickers = NameOnlyTickers

\* BTC +2 %, ETH -1 %: the written segment is up
C17_Witness ==
  /\ written # NULL /\ crypto # NULL
  /\ crypto.btc.changePct = Rat(200, 1) /\ crypto.eth.changePct = Rat(-100, 1)
  /\ \E s \in WrittenDigital :
       /\ s.direction = "up"
       /\ s.description = "BTC +2.00%, ETH -1.00%. Fear & Greed for sentiment."
       /\ Len(s.tickers) = 7
       /\ s.tickers[1].price = Rat(60000, 1)

\* the CSV answered for a symbol has two data rows after its header, with the
\* whole closes prev > 0 and curr
TwoCloses(r) ==
  /\ r.kind = "http" /\ r.ok /\ Len(r.lines) >= 3
  /\ IsNum(r.lines[Len(r.lines) - 1]) /\ r.lines[Len(r.lines) - 1].d = 1
  /\ r.lines[Len(r.lines) - 1].n > 0
  /\ IsNum(r.lines[Len(r.lines)]) /\ r.lines[Len(r.lines)].d = 1

\* the CSV answered for a symbol has a header and fewer than two data rows
FewerThanTwoRows(r) ==
  r.kind = "http" /\ r.ok /\ Len(r.lines) <= 2 /\ ~IsNum(r.lines[1])

\* C18: for each symbol whose Stooq CSV ends with two data rows of closes
\* prev > 0 and curr, the Stooq client's region of that symbol has changePct
\* = (curr - prev) / prev * 100, the banded direction of that value
\* (volatility words for VIX) and placeholder = false; a CSV with a header
\* and fewer than two data rows gives a placeholder region (stated where the
\* Stooq client is about to answer, for every answer it can get); and
\* without the FMP key a Stooq result with a real region is what the written
\* Global Markets segment holds.
C18_StooqChange ==
  /\ (pc = "awaitAll" /\ stooqGlobal = PENDING) =>
       \A rs \in StooqResponses :
         LET g == fetchStooqGlobalMarkets(rs)
         IN  \A i \in DOMAIN STOOQ_GLOBAL_SYMBOLS :
               /\ TwoCloses(rs[i]) =>
                    LET prev == rs[i].lines[Len(rs[i].lines) - 1].n
                        curr == rs[i].lines[Len(rs[i].lines)].n
                        pct == Rat((curr - prev) * 10000, prev)
                        r == g.regions[i]
                    IN  /\ r.label = STOOQ_GLOBAL_SYMBOLS[i].label
                        /\ r.changePct = pct
                        /\ r.placeholder = FALSE
                        /\ IF "vixStyle" \in DOMAIN r
                           THEN ThreeWayBanded(r.direction, pct, -15, 15,
                                               "elevated", "subdued", "steady")
                           ELSE ThreeWayBanded(r.direction, pct, -15, 15,
                                               "up", "down", "flat")
               /\ (FewerThanTwoRows(rs[i]) /\ g # NULL) =>
                    ~RealEntry(g.regions[i])
  /\ (written # NULL /\ ~env.hasFmp /\ Accepted(stooqGlobal)) =>
       /\ WrittenGlobal # {}
       /\ \A s \in WrittenGlobal : s.regions = stooqGlobal.regions

\* no FMP key, closes 100 then 101 for the S&P 500: the written region is
\* +1.00 %, up, not a placeholder, next to placeholder regions
C18_Witness ==
  /\ written # NULL /\ ~env.hasFmp
  /\ \E s \in WrittenGlobal :
       /\ s.regions[1] = [label |-> "S&P 500", direction |-> "up",
                          changePct |-> Rat(100, 1), placeholder |-> FALSE]
       /\ ~RealEntry(s.regions[2])

\* a quote object that carries a change figure
QuoteHasPct(q) ==
  \E f \in {"changesPercentage", "changePercent", "change",
            "regularMarketChangePercent", "regularMarketChange"} : f \in DOMAIN q

\* the quote list answers the symbol with a change figure
ListResolves(quotes, symbol) ==
  \E k \in DOMAIN quotes :
    HasSymbol(quotes[k]) /\ quotes[k].symbol = symbol /\ QuoteHasPct(quotes[k])

\* g is a result whose non-placeholder regions are exactly the symbols of
\* the set resolved
ExactlyResolved(g, resolved) ==
  /\ g # NULL
  /\ \A i \in DOMAIN g.regions : RealEntry(g.regions[i]) <=> i \in resolved

\* C19: a quote provider that resolves some tracked symbols and fails on
\* the others returns a result whose non-placeholder regions are exactly the
\* resolved symbols (FMP's batch, Stooq symbol by symbol, the Yahoo quote
\* client in batch and in per-symbol mode, each stated where the client is
\* about to answer, for every answer it can get), and the selected partial
\* result is what the written Global Markets segment holds.
C19_PartialResultKept ==
  /\ (pc = "awaitAll" /\ fmpGlobal = PENDING /\ env.hasFmp) =>
       \A r \in FmpResponses :
         LET resolved == IF r.kind = "http" /\ r.ok /\ "array" \in DOMAIN r.json
                         THEN {i \in DOMAIN FMP_GLOBAL_SYMBOLS :
                                 ListResolves(r.json.array, FMP_GLOBAL_SYMBOLS[i].symbol)}
                         ELSE {}
         IN  resolved # {} => ExactlyResolved(fetchFmpGlobalMarkets(TRUE, r), resolved)
  /\ (pc = "awaitAll" /\ stooqGlobal = PENDING) =>
       \A rs \in StooqResponses :
         LET resolved == {i \in DOMAIN STOOQ_GLOBAL_SYMBOLS : TwoCloses(rs[i])}
         IN  resolved # {} => ExactlyResolved(fetchStooqGlobalMarkets(rs), resolved)
  /\ pc = "awaitYahooQuote" =>
       /\ \A b \in YahooBatchOutcomes :
            LET resolved == IF b.kind = "array"
                            THEN {i \in DOMAIN YAHOO_GLOBAL_SYMBOLS :
                                    ListResolves(b.array, YAHOO_GLOBAL_SYMBOLS[i].symbol)}
                            ELSE {}
                none == [i \in DOMAIN YAHOO_GLOBAL_SYMBOLS |-> QNull]
            IN  resolved # {} =>
                  ExactlyResolved(
                    fetchYahooQuoteGlobalMarkets([batch |-> b, per |-> none]),
                    resolved)
       /\ \A per \in YahooPerOutcomes :
            LET resolved == {i \in DOMAIN YAHOO_GLOBAL_SYMBOLS :
                               per[i].kind = "object" /\ QuoteHasPct(per[i].object)}
            IN  resolved # {} =>
                  ExactlyResolved(
                    fetchYahooQuoteGlobalMarkets([batch |-> Throw, per |-> per]),
                    resolved)
  /\ (written # NULL /\ Accepted(globalMarkets)) =>
       /\ WrittenGlobal # {}
       /\ \A s \in WrittenGlobal : s.regions = globalMarkets.regions

\* the direction and description of the segments of that name in a list
ToneOf(segments, name) ==
  {[direction |-> segments[i].direction, description |-> segments[i].description] :
     i \in {j \in DOMAIN segments : segments[j].name = name}}

\* neither segment-quote provider obtained a quote: Alpha Vantage is not
\* configured or every request of it failed, and Yahoo Finance's batch call
\* returned nothing
NoSegmentQuotes ==
  /\ av = NULL \/ av = fetchAlphaVantage(TRUE, [i \in DOMAIN AV_KEYS |-> Throw])
  /\ yahoo = fetchYahooFinance(Throw)

\* the segments whose direction the headlines decide
NewsDriven == {"Currencies", "Energy & Materials", "U.S. Growth & Tech"}

\* C20: when the headline feed produced data and no quote provider obtained
\* segment data, Currencies, Energy & Materials and U.S. Growth & Tech of
\* the written record carry the direction and description that the keyword
\* matching on the headlines gives; when Alpha Vantage or Yahoo Finance did
\* obtain data, the written segments carry that provider's.
C20_NewsDerivedSegments ==
  written # NULL =>
    /\ (news # NULL /\ NoSegmentQuotes) =>
         \A name \in NewsDriven :
           ToneOf(written.segments, name) = ToneOf(syn.segments, name)
    /\ ~NoSegmentQuotes =>
         \A name \in NewsDriven :
           ToneOf(written.segments, name) =
             ToneOf(IF HasSegments(av) THEN av.segments ELSE yahoo.segments, name)

----------------------------------------------------------------------------
(* Order of the provider calls in main *)

\* a result that has arrived
Arrived(x) == x # PENDING /\ x # NOTCALLED

\* C21: a Stooq request is issued only when the FMP key is missing or FMP's
\* result has arrived without a real value, the Yahoo quote client is called
\* only when FMP's and Stooq's results have both arrived without a real
\* value, and in a run where FMP returned a real value no Stooq request is
\* issued.
C21_SecondaryOnlyOnDemand ==
  /\ "stooq" \in calls =>
       ~env.hasFmp \/ (Arrived(fmpGlobal) /\ ~Accepted(fmpGlobal))
  /\ "yahooQuote" \in calls =>
       /\ Arrived(fmpGlobal) /\ ~Accepted(fmpGlobal)
       /\ Arrived(stooqGlobal) /\ ~Accepted(stooqGlobal)
  /\ Accepted(fmpGlobal) => "stooq" \notin calls

\* the provider requests started by a step
StartedNow == calls' \ calls

\* C22: the crypto feed and the commodity feed are started without waiting
\* for the sentiment, headline and index-quote requests: in the step that
\* starts either of them, the sentiment request and the Stooq request are
\* in flight.
C22_FeedsStartConcurrently ==
  [][(StartedNow \cap {"coinGecko", "commoditiesYahoo"} # {}) =>
       (fng' = PENDING /\ stooqGlobal' = PENDING)]_vars

\* no provider request is in flight, and every client called has answered
NoneInFlight ==
  PENDING \notin {fng, news, fmpGlobal, stooqGlobal, yahooGlobal, crypto,
                  commodities, av, yahoo}

\* C23: a step that applies a merge (the segments of the record change) or
\* writes the record is taken only when every provider call started in the
\* run has resolved, and no request is in flight once main is at the write
\* step.
C23_MergeAfterAllResolved ==
  [][/\ (briefing'.segments # briefing.segments \/ written' # written) =>
          NoneInFlight'
     /\ pc' \in {"write", "done"} => NoneInFlight']_vars

\* a record written in a run that called every client but Alpha Vantage's
C23_Witness ==
  /\ written # NULL /\ NoneInFlight
  /\ {"fearGreed", "newsApi", "fmp", "stooq", "yahooQuote", "coinGecko",
      "commoditiesYahoo", "yahooFinance"} \subseteq calls
  /\ written.segments # FALLBACK.segments

----------------------------------------------------------------------------
(* The base segments *)

\* the segments that no merge changes in direction or description
Untouched == NewsDriven

\* the segments of the list carry the direction and description of the
\* provider's segments, which are neither the baseline's nor the
\* news-derived ones
BaseIs(provider) ==
  /\ HasSegments(provider)
  /\ \A name \in Untouched :
       /\ ToneOf(written.segments, name) = ToneOf(provider.segments, name)
       /\ ToneOf(written.segments, name) # ToneOf(FALLBACK.segments, name)
       /\ HasSegments(syn) =>
            ToneOf(written.segments, name) # ToneOf(syn.segments, name)

BaseGlobal ==
  LET base == IF HasSegments(av) THEN av.segments ELSE yahoo.segments
  IN  {base[i] : i \in {j \in DOMAIN base : base[j].name = "Global Markets"}}

\* C30: when the index-quote data is rejected the written Global Markets
\* segment has the outline's placeholder regions and the outline text, with
\* the direction of the base segments' Global Markets; when it is accepted,
\* regions, direction and description are those of the accepted result.
C30_GlobalDirectionKept ==
  written # NULL =>
    \A s \in WrittenGlobal :
      IF Accepted(globalMarkets)
      THEN /\ s.regions = globalMarkets.regions
           /\ s.direction = globalMarkets.direction
           /\ s.description = globalMarkets.description
      ELSE /\ \A i \in DOMAIN s.regions : ~RealEntry(s.regions[i])
           /\ s.description = "Session tone and regional risk across major indices."
           /\ \E b \in BaseGlobal : s.direction = b.direction

\* a written Global Markets segment that points up or down while every one
\* of its regions is a placeholder
C30_Witness ==
  /\ written # NULL /\ ~Accepted(globalMarkets)
  /\ \E s \in WrittenGlobal :
       /\ s.direction \in {"up", "down"}
       /\ \A i \in DOMAIN s.regions : ~RealEntry(s.regions[i])

----------------------------------------------------------------------------
(* Properties of the market drivers (SpecDrivers) *)

\* getMarketDrivers has derived the drivers of a record that carries none
DriversDerived == dDrivers # <<>> /\ "marketDrivers" \notin DOMAIN dData

\* the segment names of the record read
NamesRead == {dData.segments[i].name : i \in DOMAIN dData.segments}

\* how many of the rates, tech-or-crypto and macro summaries are produced
Produced ==
  (IF "Bonds & Rates" \in NamesRead THEN 1 ELSE 0)
    + (IF {"U.S. Growth & Tech", "Digital Assets"} \cap NamesRead # {} THEN 1 ELSE 0)
    + (IF "Global Markets" \in NamesRead THEN 1 ELSE 0)

\* the volatility summary of the sentiment reading of the record read
VolatilitySummary ==
  IF "fearGreed" \notin DOMAIN dData THEN "Volatility: Neutral (F&G 50 Neutral)"
  ELSE IF dData.fearGreed.value = 25
  THEN "Volatility: Elevated, skew bearish (F&G 25 Extreme Fear)"
  ELSE IF dData.fearGreed.value = 60
  THEN "Volatility: Subdued, risk-on (F&G 60 Greed)"
  ELSE "Volatility: Neutral (F&G 50 Neutral)"

\* the source segment of each label
DriverSource ==
  [Rates |-> "Bonds & Rates", Tech |-> "U.S. Growth & Tech",
   Crypto |-> "Digital Assets", Macro |-> "Global Markets", FX |-> "Currencies"]

\* the driver the filter allows for a segment: label and arrow, then the
\* first fragment of the description when that is neither empty, nor longer
\* than 40 characters, nor placeholder phrasing, else higher / lower for a
\* direction up / down
AllowedDriver(label, seg) ==
  LET dir == IF "direction" \in DOMAIN seg THEN seg.direction ELSE "flat"
      arrow == CASE dir = "up" -> "^" [] dir = "down" -> "v" [] OTHER -> "-"
      text == IF "description" \in DOMAIN seg THEN seg.description ELSE ""
      fragment == (CHOOSE t \in DESCRIPTION_TABLE : t.text = text).first
      filtered ==
        \/ fragment = ""
        \/ Len(fragment) > 40
        \/ fragment \in {"Government bonds and credit", "Add API keys for live data",
                         "Tech data temporarily unavailable"}
  IN  IF ~filtered THEN label \o ": " \o arrow \o " " \o fragment
      ELSE CASE dir = "up" -> label \o ": " \o arrow \o " higher"
             [] dir = "down" -> label \o ": " \o arrow \o " lower"
             [] OTHER -> label \o ": " \o arrow

\* the FX summary is among the drivers
FxListed ==
  \E i \in DOMAIN dDrivers : \E k \in DOMAIN dData.segments :
    /\ dData.segments[k].name = "Currencies"
    /\ dDrivers[i] = AllowedDriver("FX", dData.segments[k])

\* C27: for a record without marketDrivers, getMarketDrivers returns one to
\* four entries, the last of which is the volatility summary of fearGreed,
\* whichever of the named segments are present; the FX summary is listed
\* only when fewer than three of the rates, tech-or-crypto and macro
\* summaries were produced.
C27_DriversShape ==
  DriversDerived =>
    /\ Len(dDrivers) >= 1 /\ Len(dDrivers) <= 4
    /\ dDrivers[Len(dDrivers)] = VolatilitySummary
    /\ Len(dDrivers) = Produced + 1 + (IF FxListed THEN 1 ELSE 0)
    /\ FxListed => Produced < 3

\* all five source segments present: three summaries and the volatility
\* summary, no FX summary
C27_Witness ==
  /\ DriversDerived
  /\ Len(dData.segments) = 5
  /\ Len(dDrivers) = 4 /\ ~FxListed
  /\ dDrivers[4] = "Volatility: Elevated, skew bearish (F&G 25 Extreme Fear)"

\* C28: every segment-derived driver is the one the content filter allows
\* for its source segment: a description fragment that is empty, longer
\* than 40 characters or placeholder phrasing is left out, and the driver is
\* then label and arrow, followed by higher or lower for up or down.
C28_DescriptionFilter ==
  DriversDerived =>
    \A i \in 1 .. (Len(dDrivers) - 1) :
      \E label \in DOMAIN DriverSource : \E k \in DOMAIN dData.segments :
        /\ dData.segments[k].name = DriverSource[label]
        /\ dDrivers[i] = AllowedDriver(label, dData.segments[k])

\* a rising segment whose description is 51 characters long: the driver is
\* label, arrow and "higher"
C28_Witness ==
  /\ DriversDerived
  /\ dData.segments # <<>>
  /\ dData.segments[1] =
       [name |-> "Global Markets", direction |-> "up",
        description |-> "Session tone and regional risk across major indices."]
  /\ dDrivers[1] = "Macro: ^ higher"

----------------------------------------------------------------------------
(* Properties of the clients' requests (SpecClients) *)

\* the request at position k of the log has settled
Settled(k) == "end" \in DOMAIN cLog[k]

\* C24: the Yahoo quote client issues the batch call first; a per-symbol
\* lookup is issued only after the batch threw or returned no entry carrying
\* a symbol, the lookups go through the symbol list in order, each issued
\* after the one before has settled, so at most one request is in flight;
\* after a batch with an entry carrying a symbol the client ends without
\* any lookup.
C24_BatchThenPerSymbol ==
  cWho = "yahooQuote" =>
    /\ Cardinality(cFlight) <= 1
    /\ cLog[1].req = "batch"
    /\ Len(cLog) > 1 =>
         /\ Settled(1)
         /\ cLog[1].out = "throw" \/ cLog[1].symbols = 0
    /\ \A k \in 2 .. Len(cLog) :
         /\ cLog[k].req = YAHOO_GLOBAL_SYMBOLS[k - 1].symbol
         /\ Settled(k - 1) /\ cLog[k].at >= cLog[k - 1].end
    /\ (Settled(1) /\ cLog[1].out # "throw" /\ cLog[1].symbols > 0) =>
         cPc = "done" /\ Len(cLog) = 1

\* the batch returned an empty list and all nine symbols were looked up
C24_Witness ==
  /\ cWho = "yahooQuote" /\ cPc = "done"
  /\ cLog[1].out = "array" /\ cLog[1].symbols = 0
  /\ Len(cLog) = 1 + Len(YAHOO_GLOBAL_SYMBOLS)
  /\ cLog[10].req = "^VIX" /\ cLog[10].at = 8 * YahooDelay

\* C25: each Stooq request is bounded by a timeout of its own: a request
\* whose server answers within StooqTimeout is answered, whatever time the
\* requests and delays of earlier symbols took.
C25_OwnTimeoutPerSymbol ==
  cWho = "stooq" =>
    \A k \in DOMAIN cLog :
      (Settled(k) /\ cLog[k].latency < StooqTimeout) => cLog[k].out = "answered"

\* C26: Alpha Vantage's first five lookups are issued together, the other
\* three only after all five have settled and AlphaVantageDelay more has
\* passed, and no 60-second window holds more than five issued lookups.
C26_FivePerMinute ==
  cWho = "alphaVantage" =>
    /\ Len(cLog) \in {5, 8}
    /\ \A k \in 1 .. 5 : cLog[k].at = 0 /\ cLog[k].req = AV_KEYS[k]
    /\ \A j \in 6 .. Len(cLog) : \A k \in 1 .. 5 :
         /\ Settled(k)
         /\ cLog[j].at >= cLog[k].end + 650
         /\ cLog[j].req = AV_KEYS[j]
    /\ \A k \in DOMAIN cLog :
         Cardinality({j \in DOMAIN cLog :
                        cLog[j].at >= cLog[k].at /\ cLog[j].at < cLog[k].at + 600}) <= 5

\* all eight lookups made, the first five answered within a tenth of a
\* second: the other three issued 65.1 seconds after the call
C26_Witness ==
  /\ cWho = "alphaVantage" /\ cPc = "done"
  /\ Len(cLog) = 8 /\ cLog[6].at = 651 /\ cLog[8].at = 651

====
